---- MODULE Spec2Model ----
(***************************************************************************)
(* A model of easyflag (package cli): ParseAndLoadFlags fills a structure  *)
(* from the command line according to the `flag` tags of its fields.      *)
(*                                                                         *)
(* Go strings are TLA+ strings, taken apart with Len, SubSeq and \o.       *)
(* Integer field values are kept as canonical decimal strings ("0", "17",  *)
(* "-5"), so that the 32 and 64 bit ranges of strconv are compared exactly *)
(* although the model checker's own integers are narrower.                 *)
(***************************************************************************)
EXTENDS Integers, Sequences, FiniteSets, TLC

(***************************************************************************)
(* Bounds of the model.                                                    *)
(***************************************************************************)
\* the longest command line (os.Args[1:]) that is explored
MaxArgs == 2

(***************************************************************************)
(* package strings                                                         *)
(***************************************************************************)
At(s, i) == SubSeq(s, i, i)

HasPrefix(s, p) == Len(s) >= Len(p) /\ SubSeq(s, 1, Len(p)) = p

RECURSIVE IndexFrom(_, _, _)
\* the first index >= i at which the one-character string c stands in s, or 0
IndexFrom(s, c, i) ==
    IF i > Len(s) THEN 0
    ELSE IF At(s, i) = c THEN i
    ELSE IndexFrom(s, c, i + 1)

Index(s, c) == IndexFrom(s, c, 1)

RECURSIVE Split(_, _)
\* strings.Split(s, sep) for a one-character separator
Split(s, sep) ==
    LET k == Index(s, sep) IN
    IF k = 0 THEN <<s>>
    ELSE <<SubSeq(s, 1, k - 1)>> \o Split(SubSeq(s, k + 1, Len(s)), sep)

WhiteSpace == {" ", "\t", "\n", "\r"}

RECURSIVE TrimLeft(_)
TrimLeft(s) ==
    IF Len(s) > 0 /\ At(s, 1) \in WhiteSpace THEN TrimLeft(SubSeq(s, 2, Len(s))) ELSE s

RECURSIVE TrimRight(_)
TrimRight(s) ==
    IF Len(s) > 0 /\ At(s, Len(s)) \in WhiteSpace
    THEN TrimRight(SubSeq(s, 1, Len(s) - 1)) ELSE s

\* strings.TrimSpace
TrimSpace(s) == TrimRight(TrimLeft(s))

RECURSIVE Join(_, _)
\* strings.Join(elems, sep)
Join(elems, sep) ==
    IF Len(elems) = 0 THEN ""
    ELSE IF Len(elems) = 1 THEN elems[1]
    ELSE elems[1] \o sep \o Join(Tail(elems), sep)

\* fmt's %q of a string without characters that need escaping
Quote(s) == "\"" \o s \o "\""

(***************************************************************************)
(* package strconv: the decoders of default texts and of flag values       *)
(***************************************************************************)
Digits == {"0", "1", "2", "3", "4", "5", "6", "7", "8", "9"}

DigitVal(c) ==
    CASE c = "0" -> 0 [] c = "1" -> 1 [] c = "2" -> 2 [] c = "3" -> 3 [] c = "4" -> 4
      [] c = "5" -> 5 [] c = "6" -> 6 [] c = "7" -> 7 [] c = "8" -> 8 [] c = "9" -> 9

AllDigits(s) == Len(s) > 0 /\ \A i \in 1..Len(s) : At(s, i) \in Digits

RECURSIVE StripZeros(_)
\* the canonical form of a string of digits: no leading zero, "0" for zero
StripZeros(s) ==
    IF Len(s) > 1 /\ At(s, 1) = "0" THEN StripZeros(SubSeq(s, 2, Len(s))) ELSE s

RECURSIVE DigitsLess(_, _)
\* a < b for two canonical digit strings of the same length
DigitsLess(a, b) ==
    IF Len(a) = 0 THEN FALSE
    ELSE IF DigitVal(At(a, 1)) # DigitVal(At(b, 1)) THEN DigitVal(At(a, 1)) < DigitVal(At(b, 1))
    ELSE DigitsLess(SubSeq(a, 2, Len(a)), SubSeq(b, 2, Len(b)))

\* a <= b for two canonical digit strings
MagnitudeLeq(a, b) ==
    \/ Len(a) < Len(b)
    \/ Len(a) = Len(b) /\ (a = b \/ DigitsLess(a, b))

\* the largest magnitudes of the integer types (strconv's cutoffs)
MaxUint(bitSize) == IF bitSize = 32 THEN "4294967295" ELSE "18446744073709551615"
MaxInt(bitSize) == IF bitSize = 32 THEN "2147483647" ELSE "9223372036854775807"
MinIntMagnitude(bitSize) == IF bitSize = 32 THEN "2147483648" ELSE "9223372036854775808"

\* the result of a decoder: a value, or an error
Ok(v) == [ok |-> TRUE, val |-> v]
Fail(msg) == [ok |-> FALSE, msg |-> msg]

\* strconv.ParseUint(s, 10, bitSize); an underscore or a base prefix is a
\* syntax error in base 10.
ParseUint(s, bitSize) ==
    IF ~AllDigits(s) THEN Fail("strconv.ParseUint: parsing " \o Quote(s) \o ": invalid syntax")
    ELSE IF ~MagnitudeLeq(StripZeros(s), MaxUint(bitSize))
    THEN Fail("strconv.ParseUint: parsing " \o Quote(s) \o ": value out of range")
    ELSE Ok(StripZeros(s))

\* strconv.ParseInt(s, 10, bitSize)
ParseInt(s, bitSize) ==
    LET signed == Len(s) > 0 /\ At(s, 1) \in {"+", "-"}
        neg == Len(s) > 0 /\ At(s, 1) = "-"
        body == IF signed THEN SubSeq(s, 2, Len(s)) ELSE s
        mag == StripZeros(body)
    IN  IF ~AllDigits(body)
        THEN Fail("strconv.ParseInt: parsing " \o Quote(s) \o ": invalid syntax")
        ELSE IF ~MagnitudeLeq(mag, IF neg THEN MinIntMagnitude(bitSize) ELSE MaxInt(bitSize))
        THEN Fail("strconv.ParseInt: parsing " \o Quote(s) \o ": value out of range")
        ELSE Ok(IF neg /\ mag # "0" THEN "-" \o mag ELSE mag)

\* strconv.Atoi: ParseInt(s, 10, 0), an int being 64 bits wide on the platforms
\* the package is built for
Atoi(s) ==
    LET r == ParseInt(s, 64) IN
    IF r.ok THEN r
    ELSE Fail("strconv.Atoi: " \o SubSeq(r.msg, Len("strconv.ParseInt: ") + 1, Len(r.msg)))

\* ParseBool taking every value it accepts for true
ParseBoolPresence(s) ==
    IF s \in {"1", "t", "T", "TRUE", "true", "True", "0", "f", "F", "FALSE", "false", "False"}
    THEN Ok(TRUE)
    ELSE Fail("strconv.ParseBool: parsing " \o Quote(s) \o ": invalid syntax")

\* strconv.ParseBool
ParseBool(s) ==
    IF s \in {"1", "t", "T", "TRUE", "true", "True"} THEN Ok(TRUE)
    ELSE IF s \in {"0", "f", "F", "FALSE", "false", "False"} THEN Ok(FALSE)
    ELSE Fail("strconv.ParseBool: parsing " \o Quote(s) \o ": invalid syntax")

(***************************************************************************)
(* The field types and their values                                        *)
(***************************************************************************)
\* the kinds of field the model draws from: six of the eight primitives of the
\* type switch, a nested structure, and a type outside the switch (a slice)
IntKinds == {"int", "int64", "uint", "uint64"}
PrimitiveKinds == {"string", "bool"} \cup IntKinds
Kinds == PrimitiveKinds \cup {"struct", "slice"}

\* reflect.Zero of a primitive type
ZeroOf(kind) ==
    IF kind = "bool" THEN FALSE
    ELSE IF kind \in IntKinds THEN "0"
    ELSE ""

\* the decoder the type switch of setUpFlags hands to parseFlagData
tParser(kind, s) ==
    CASE kind = "string" -> Ok(s)
      [] kind = "bool"   -> ParseBool(s)
      [] kind = "int"    -> Atoi(s)
      [] kind = "int64"  -> ParseInt(s, 64)
      [] kind = "uint"   -> ParseUint(s, 32)
      [] kind = "uint64" -> ParseUint(s, 64)

\* base 0 also accepts a base prefix, a leading 0 for octal and underscores;
\* none of the command lines explored use them
Base10Only(s) ==
    LET body == IF Len(s) > 0 /\ At(s, 1) \in {"+", "-"} THEN SubSeq(s, 2, Len(s)) ELSE s
    IN  ~(Len(body) > 1 /\ At(body, 1) = "0") /\ Index(body, "_") = 0

\* Set of the flag package's value types (stringValue, boolValue, intValue,
\* int64Value, uintValue, uint64Value): numbers are parsed in base 0 and 64 bits
flagValueSet(kind, s) ==
    CASE kind = "string" -> Ok(s)
      [] kind = "bool"   -> IF ParseBool(s).ok THEN ParseBool(s) ELSE Fail("parse error")
      [] kind \in {"int", "int64"} ->
            IF ~Base10Only(s) THEN Fail("parse error")
            ELSE IF ParseInt(s, 64).ok THEN ParseInt(s, 64)
            ELSE IF AllDigits(IF HasPrefix(s, "-") \/ HasPrefix(s, "+") THEN SubSeq(s, 2, Len(s)) ELSE s)
            THEN Fail("value out of range") ELSE Fail("parse error")
      [] kind \in {"uint", "uint64"} ->
            IF ~Base10Only(s) THEN Fail("parse error")
            ELSE IF ParseUint(s, 64).ok THEN ParseUint(s, 64)
            ELSE IF AllDigits(s) THEN Fail("value out of range") ELSE Fail("parse error")

(***************************************************************************)
(* The structure passed by the caller                                      *)
(*                                                                         *)
(* A structure type is [fields, ext]: its fields in declaration order and  *)
(* what its Extend method does (NoExt when it has none).  A field is       *)
(* [name, kind, tag, sub]: tag is the value of its `flag` tag ("" when it  *)
(* has none) and sub the type of a field of kind "struct".  The address of *)
(* a field is the path of field indices leading to it from the top.        *)
(***************************************************************************)
NoExt == [op |-> "none", from |-> <<>>, to |-> <<>>, val |-> ""]
\* Extend methods: one that fails, one that assigns a field of its structure,
\* and one that fills a field from another field when that one was given
ExtFail == [op |-> "fail", from |-> <<>>, to |-> <<>>, val |-> ""]
ExtSet(to, val) == [op |-> "set", from |-> <<>>, to |-> to, val |-> val]
ExtCopy(from, to) == [op |-> "copy", from |-> from, to |-> to, val |-> ""]

NoType == [fields |-> <<>>, ext |-> NoExt]
Fld(name, kind, tag) == [name |-> name, kind |-> kind, tag |-> tag, sub |-> NoType]
StructFld(name, tag, type) == [name |-> name, kind |-> "struct", tag |-> tag, sub |-> type]

RECURSIVE Leaves(_, _)
\* the addresses of the fields that are not structures, below the address base
Leaves(type, base) ==
    UNION { IF type.fields[i].kind = "struct"
            THEN Leaves(type.fields[i].sub, Append(base, i))
            ELSE {Append(base, i)} : i \in 1..Len(type.fields) }

RECURSIVE FieldAt(_, _)
\* the field at a path
FieldAt(type, path) ==
    IF Len(path) = 1 THEN type.fields[path[1]]
    ELSE FieldAt(type.fields[path[1]].sub, Tail(path))

\* reflect.Zero(pEl.Type()): every field at the zero value of its type
ZeroStruct(type) == [a \in Leaves(type, <<>>) |-> ZeroOf(FieldAt(type, a).kind)]

\* reflect.Value.IsZero of the field at an address
IsZero(type, m, addr) == m[addr] = ZeroOf(FieldAt(type, addr).kind)

(***************************************************************************)
(* Errors                                                                  *)
(***************************************************************************)
Nil == [kind |-> "nil", msg |-> "", names |-> <<>>]
Error(kind, msg) == [kind |-> kind, msg |-> msg, names |-> <<>>]

(***************************************************************************)
(* flag.go: constants                                                      *)
(***************************************************************************)
helpArg == "-help"
helpArgShort == "-h"
requiredValue == "required"

(***************************************************************************)
(* flagbuilder: parsing of the metadata of one field                       *)
(***************************************************************************)
\* parseBaseFlagData taking any fourth part for the required marker
parseBaseFlagDataAnyFourth(flagMetadata) ==
    LET metadataParts == Split(flagMetadata, "|")
        isRequired == Len(metadataParts) > 3
    IN  [name |-> TrimSpace(metadataParts[1]),
         usage |-> IF Len(metadataParts) > 1 THEN TrimSpace(metadataParts[2]) ELSE "",
         isRequired |-> isRequired,
         defaultVal |-> IF isRequired \/ Len(metadataParts) < 3 THEN ""
                        ELSE TrimSpace(metadataParts[3])]

\* parseBaseFlagData keeping the default text of a required flag
parseBaseFlagDataKeepDefault(flagMetadata) ==
    LET metadataParts == Split(flagMetadata, "|") IN
    [name |-> TrimSpace(metadataParts[1]),
     usage |-> IF Len(metadataParts) > 1 THEN TrimSpace(metadataParts[2]) ELSE "",
     isRequired |-> Len(metadataParts) > 3 /\ metadataParts[4] = requiredValue,
     defaultVal |-> IF Len(metadataParts) > 2 THEN TrimSpace(metadataParts[3]) ELSE ""]

\* parseBaseFlagData: the name, usage, required marker and default text of a tag
parseBaseFlagData(flagMetadata) ==
    LET metadataParts == Split(flagMetadata, "|")
        name == TrimSpace(metadataParts[1])
        usage == IF Len(metadataParts) > 1 THEN TrimSpace(metadataParts[2]) ELSE ""
        default == IF Len(metadataParts) > 2 THEN TrimSpace(metadataParts[3]) ELSE ""
        isRequired == Len(metadataParts) > 3 /\ metadataParts[4] = requiredValue
    IN  [name |-> name, usage |-> usage, isRequired |-> isRequired,
         \* if it is required, we ignore default value
         defaultVal |-> IF isRequired THEN "" ELSE default]

\* The check of the fourth part of the metadata, which ParseAndLoad of package
\* easyflag makes and its test "fail - fourth segment invalid" expects: a fourth
\* part that is present, not empty and not the required marker is an error.
fourthPartError(flagMetadata) ==
    LET metadataParts == Split(flagMetadata, "|") IN
    IF Len(metadataParts) > 3 /\ metadataParts[4] # "" /\ metadataParts[4] # requiredValue
    THEN Error("metadata", "unsupported value " \o Quote(metadataParts[4])
                            \o " in the fourth metadata part")
    ELSE Nil

\* reservedNameError knowing the long help flag only
reservedNameErrorLongOnly(name) ==
    IF "-" \o name = helpArg
    THEN Error("reserved", "reserved flag -" \o name \o " overwriting not allowed")
    ELSE Nil

\* The check of the flag name against the reserved help flags, which ParseAndLoad
\* of package easyflag makes and its tests "fail - trying to overwrite the
\* short/long help flag" expect.
reservedNameError(name) ==
    IF "-" \o name = helpArg \/ "-" \o name = helpArgShort
    THEN Error("reserved", "reserved flag -" \o name \o " overwriting not allowed")
    ELSE Nil

\* parseFlagData taking the zero value for a default text that does not decode
parseFlagDataZeroOnError(kind, addr, flagMetadata) ==
    LET baseData == parseBaseFlagData(flagMetadata)
        decoded == IF baseData.defaultVal # "" THEN tParser(kind, baseData.defaultVal)
                   ELSE Ok(ZeroOf(kind))
    IN  IF fourthPartError(flagMetadata) # Nil
        THEN [err |-> fourthPartError(flagMetadata)]
        ELSE IF reservedNameError(baseData.name) # Nil
        THEN [err |-> reservedNameError(baseData.name)]
        ELSE [err |-> Nil,
              fd |-> [name |-> baseData.name, usage |-> baseData.usage,
                      isRequired |-> baseData.isRequired, kind |-> kind,
                      addr |-> addr,
                      defaultVal |-> IF decoded.ok THEN decoded.val ELSE ZeroOf(kind)]]

\* parseFlagData: the typed flag of one field, or the error of its metadata
parseFlagData(kind, addr, flagMetadata) ==
    LET baseData == parseBaseFlagData(flagMetadata)
        decoded == IF baseData.defaultVal # "" THEN tParser(kind, baseData.defaultVal)
                   ELSE Ok(ZeroOf(kind))
    IN  IF fourthPartError(flagMetadata) # Nil
        THEN [err |-> fourthPartError(flagMetadata)]
        ELSE IF reservedNameError(baseData.name) # Nil
        THEN [err |-> reservedNameError(baseData.name)]
        ELSE IF ~decoded.ok
        THEN [err |-> Error("default", decoded.msg)]
        ELSE [err |-> Nil,
              fd |-> [name |-> baseData.name, usage |-> baseData.usage,
                      isRequired |-> baseData.isRequired, kind |-> kind,
                      addr |-> addr, defaultVal |-> decoded.val]]

(***************************************************************************)
(* flagbuilder: the collection of the flags of a structure                 *)
(***************************************************************************)
\* newFlagBuilder
newFlagBuilder == [flags |-> <<>>, values |-> <<>>, required |-> << >>, extFns |-> <<>>]

\* fb.required[name] = addr, on a map kept as a sequence of (name, addr) pairs
\* with one pair for a name
MapPut(m, name, addr) ==
    SelectSeq(m, LAMBDA e : e.name # name) \o <<[name |-> name, addr |-> addr]>>

\* addFlagData marking the booleans, not the others, as the flags that take a
\* value
addFlagDataIsBool(fb, fd) ==
    [fb EXCEPT !.values = Append(@, [name |-> fd.name, isBool |-> fd.kind = "bool"]),
               !.flags = Append(@, fd),
               !.required = IF fd.isRequired THEN MapPut(@, fd.name, fd.addr) ELSE @]

\* addFlagData
addFlagData(fb, fd) ==
    [fb EXCEPT !.values = Append(@, [name |-> fd.name,
                                     \* only booleans do not have to have a value
                                     isBool |-> fd.kind # "bool"]),
               !.flags = Append(@, fd),
               !.required = IF fd.isRequired THEN MapPut(@, fd.name, fd.addr) ELSE @]

\* whether a field name is exported: reflect.Value.Interface panics on a value
\* obtained from a field that is not
IsExported(name) ==
    At(name, 1) \in { At("ABCDEFGHIJKLMNOPQRSTUVWXYZ", k) : k \in 1..26 }

RECURSIVE setUpFieldsTagless(_, _, _, _)
\* setUpFlags without the test for a field that has no tag
setUpFieldsTagless(fb, type, base, i) ==
    IF i > Len(type.fields)
    THEN [panic |-> FALSE, err |-> Nil,
          fb |-> IF type.ext.op # "none"
                 THEN [fb EXCEPT !.extFns = Append(@, [base |-> base, ext |-> type.ext])]
                 ELSE fb]
    ELSE LET fld == type.fields[i]
             addr == Append(base, i)
         IN  IF fld.kind = "struct"
             THEN IF ~IsExported(fld.name)
                  THEN [panic |-> TRUE, err |-> Nil, fb |-> fb]
                  ELSE LET sub == setUpFieldsTagless(fb, fld.sub, addr, 1) IN
                       IF sub.panic \/ sub.err # Nil THEN sub
                       ELSE setUpFieldsTagless(sub.fb, type, base, i + 1)
             ELSE IF ~IsExported(fld.name)
             THEN [panic |-> TRUE, err |-> Nil, fb |-> fb]
             ELSE IF fld.kind \notin PrimitiveKinds
             THEN [panic |-> FALSE,
                   err |-> Error("type", "unsupported flag type: " \o fld.kind), fb |-> fb]
             ELSE LET r == parseFlagData(fld.kind, addr, fld.tag) IN
                  IF r.err # Nil THEN [panic |-> FALSE, err |-> r.err, fb |-> fb]
                  ELSE setUpFieldsTagless(addFlagData(fb, r.fd), type, base, i + 1)

RECURSIVE setUpFields(_, _, _, _)
\* setUpFlags: the loop over the fields of the structure at address base, from
\* field i on, and then the registration of its Extend method.  The calls
\* fld.Addr().Interface() for a structure and fld.Interface() for a field with
\* a tag panic when the field is not exported.
setUpFields(fb, type, base, i) ==
    IF i > Len(type.fields)
    THEN [panic |-> FALSE, err |-> Nil,
          fb |-> IF type.ext.op # "none"
                 THEN [fb EXCEPT !.extFns = Append(@, [base |-> base, ext |-> type.ext])]
                 ELSE fb]
    ELSE LET fld == type.fields[i]
             addr == Append(base, i)
         IN  IF fld.kind = "struct"
             THEN IF ~IsExported(fld.name)
                  THEN [panic |-> TRUE, err |-> Nil, fb |-> fb]
                  ELSE LET sub == setUpFields(fb, fld.sub, addr, 1) IN
                       IF sub.panic \/ sub.err # Nil THEN sub
                       ELSE setUpFields(sub.fb, type, base, i + 1)
             ELSE IF fld.tag = ""
             THEN setUpFields(fb, type, base, i + 1)
             ELSE IF ~IsExported(fld.name)
             THEN [panic |-> TRUE, err |-> Nil, fb |-> fb]
             ELSE IF fld.kind \notin PrimitiveKinds
             THEN [panic |-> FALSE,
                   err |-> Error("type", "unsupported flag type: " \o fld.kind), fb |-> fb]
             ELSE LET r == parseFlagData(fld.kind, addr, fld.tag) IN
                  IF r.err # Nil THEN [panic |-> FALSE, err |-> r.err, fb |-> fb]
                  ELSE setUpFields(addFlagData(fb, r.fd), type, base, i + 1)

\* setUpFlags registering the Extend method of the structure before those of
\* the structures nested in it
setUpFlagsOwnHookFirst(fb, type, base) ==
    LET r == setUpFields(fb, type, base, 1)
        n == Len(r.fb.extFns)
    IN  IF type.ext.op # "none" /\ ~r.panic /\ r.err = Nil
        THEN [r EXCEPT !.fb.extFns = <<@[n]>> \o SubSeq(@, 1, n - 1)]
        ELSE r

\* setUpFlags(cliParams) for a pointer to the structure at address base
setUpFlags(fb, type, base) == setUpFields(fb, type, base, 1)

(***************************************************************************)
(* package flag: a FlagSet with ContinueOnError                            *)
(***************************************************************************)
ErrHelp == Error("help", "flag: help requested")

\* the flag registered under a name (FlagSet.formal), or none
Defined(formal, name) == \E k \in 1..Len(formal) : formal[k].name = name
Lookup(formal, name) == formal[CHOOSE k \in 1..Len(formal) : formal[k].name = name]

RECURSIVE attachFromFillingZero(_, _, _, _)
\* attachFlags storing the default only in a field that holds the zero value
attachFromFillingZero(flags, k, formal, m) ==
    IF k > Len(flags) THEN [panic |-> FALSE, formal |-> formal, mem |-> m]
    ELSE LET f == flags[k]
             stored == IF m[f.addr] = ZeroOf(f.kind) THEN [m EXCEPT ![f.addr] = f.defaultVal]
                       ELSE m
         IN  IF HasPrefix(f.name, "-") \/ Index(f.name, "=") # 0 \/ Defined(formal, f.name)
             THEN [panic |-> TRUE, formal |-> formal, mem |-> stored]
             ELSE attachFromFillingZero(flags, k + 1, Append(formal, f), stored)

RECURSIVE attachFrom(_, _, _, _)
\* attachFlags: StringVar, BoolVar, ... of every collected flag in turn.  Each
\* stores the default in the field and registers the flag; FlagSet.Var panics
\* on a name that starts with a hyphen, holds an equals sign or is taken.
attachFrom(flags, k, formal, m) ==
    IF k > Len(flags) THEN [panic |-> FALSE, formal |-> formal, mem |-> m]
    ELSE LET f == flags[k]
             stored == [m EXCEPT ![f.addr] = f.defaultVal]
         IN  IF HasPrefix(f.name, "-") \/ Index(f.name, "=") # 0 \/ Defined(formal, f.name)
             THEN [panic |-> TRUE, formal |-> formal, mem |-> stored]
             ELSE attachFrom(flags, k + 1, Append(formal, f), stored)

\* attachFlags registering the flags without storing their defaults
attachFlagsKeepingValues(fb, m) ==
    [attachFrom(fb.flags, 1, <<>>, m) EXCEPT !.mem = m]

\* attachFlags
attachFlags(fb, m) == attachFrom(fb.flags, 1, <<>>, m)

RECURSIVE fsParse(_, _, _)
\* FlagSet.Parse: parseOne until the arguments end, a non-flag argument or the
\* terminator "--" is met, or a flag fails
fsParse(formal, m, arguments) ==
    IF Len(arguments) = 0 THEN [err |-> Nil, mem |-> m]
    ELSE
    LET s == arguments[1]
        rest == Tail(arguments)
        numMinuses == IF Len(s) >= 2 /\ At(s, 2) = "-" THEN 2 ELSE 1
        name0 == SubSeq(s, numMinuses + 1, Len(s))
        eq == IndexFrom(name0, "=", 2)
        name == IF eq # 0 THEN SubSeq(name0, 1, eq - 1) ELSE name0
        inline == IF eq # 0 THEN SubSeq(name0, eq + 1, Len(name0)) ELSE ""
    IN  IF Len(s) < 2 \/ At(s, 1) # "-" THEN [err |-> Nil, mem |-> m]
        ELSE IF numMinuses = 2 /\ Len(s) = 2 THEN [err |-> Nil, mem |-> m]
        ELSE IF Len(name0) = 0 \/ At(name0, 1) = "-" \/ At(name0, 1) = "="
        THEN [err |-> Error("syntax", "bad flag syntax: " \o s), mem |-> m]
        ELSE IF ~Defined(formal, name)
        THEN IF name = "help" \/ name = "h"
             THEN [err |-> ErrHelp, mem |-> m]
             ELSE [err |-> Error("undefined", "flag provided but not defined: -" \o name),
                   mem |-> m]
        ELSE
        LET f == Lookup(formal, name) IN
        IF f.kind = "bool"
        THEN IF eq # 0
             THEN IF flagValueSet("bool", inline).ok
                  THEN fsParse(formal, [m EXCEPT ![f.addr] = flagValueSet("bool", inline).val], rest)
                  ELSE [err |-> Error("value", "invalid boolean value " \o Quote(inline)
                                      \o " for -" \o name \o ": "
                                      \o flagValueSet("bool", inline).msg),
                        mem |-> m]
             ELSE fsParse(formal, [m EXCEPT ![f.addr] = TRUE], rest)
        ELSE
        LET hasValue == eq # 0 \/ Len(rest) > 0
            value == IF eq # 0 THEN inline ELSE IF Len(rest) > 0 THEN rest[1] ELSE ""
            after == IF eq # 0 \/ Len(rest) = 0 THEN rest ELSE Tail(rest)
            set == flagValueSet(f.kind, value)
        IN  IF ~hasValue
            THEN [err |-> Error("value", "flag needs an argument: -" \o name), mem |-> m]
            ELSE IF ~set.ok
            THEN [err |-> Error("value", "invalid value " \o Quote(value) \o " for flag -"
                                \o name \o ": " \o set.msg),
                  mem |-> m]
            ELSE fsParse(formal, [m EXCEPT ![f.addr] = set.val], after)

RECURSIVE fsArgs(_, _)
\* FlagSet.Args after FlagSet.Parse: the arguments that parseOne has not taken
\* when Parse returns
fsArgs(formal, arguments) ==
    IF Len(arguments) = 0 THEN <<>>
    ELSE
    LET s == arguments[1]
        rest == Tail(arguments)
        numMinuses == IF Len(s) >= 2 /\ At(s, 2) = "-" THEN 2 ELSE 1
        name0 == SubSeq(s, numMinuses + 1, Len(s))
        eq == IndexFrom(name0, "=", 2)
        name == IF eq # 0 THEN SubSeq(name0, 1, eq - 1) ELSE name0
        inline == IF eq # 0 THEN SubSeq(name0, eq + 1, Len(name0)) ELSE ""
    IN  IF Len(s) < 2 \/ At(s, 1) # "-" THEN arguments
        ELSE IF numMinuses = 2 /\ Len(s) = 2 THEN rest
        ELSE IF Len(name0) = 0 \/ At(name0, 1) = "-" \/ At(name0, 1) = "="
        THEN arguments
        ELSE IF ~Defined(formal, name) THEN rest
        ELSE
        LET f == Lookup(formal, name) IN
        IF f.kind = "bool"
        THEN IF eq # 0 /\ ~flagValueSet("bool", inline).ok THEN rest
             ELSE fsArgs(formal, rest)
        ELSE
        LET value == IF eq # 0 THEN inline ELSE IF Len(rest) > 0 THEN rest[1] ELSE ""
            after == IF eq # 0 \/ Len(rest) = 0 THEN rest ELSE Tail(rest)
        IN  IF (eq = 0 /\ Len(rest) = 0) \/ ~flagValueSet(f.kind, value).ok THEN after
            ELSE fsArgs(formal, after)

(***************************************************************************)
(* flagbuilder: parsing, extensions, validation                            *)
(***************************************************************************)
\* valueMap[arg] of parseFlags: whether arg is a key, and what it maps to (the
\* entry of the last collected flag of that name)
InValueMap(values, arg) == \E k \in 1..Len(values) : "-" \o values[k].name = arg
ValueMapAt(values, arg) ==
    LET k == CHOOSE j \in 1..Len(values) :
                 /\ "-" \o values[j].name = arg
                 /\ \A l \in (j + 1)..Len(values) : "-" \o values[l].name # arg
    IN  values[k].isBool

RECURSIVE scanArgsNoDouble(_, _, _)
\* the loop of parseFlags looking the arguments up as they are written
scanArgsNoDouble(values, arguments, i) ==
    IF i > Len(arguments) THEN Nil
    ELSE LET chunks == Split(arguments[i], "=")
             arg == chunks[1]
         IN  IF ~InValueMap(values, arg)
             THEN IF arg = helpArg \/ arg = helpArgShort
                  THEN scanArgsNoDouble(values, arguments, i + 1)
                  ELSE Error("unexpected", "unexpected cli argument " \o Quote(arg))
             ELSE IF ~ValueMapAt(values, arg) \/ Len(chunks) > 1
             THEN scanArgsNoDouble(values, arguments, i + 1)
             ELSE IF i + 1 <= Len(arguments)
             THEN scanArgsNoDouble(values, arguments, i + 2)
             ELSE scanArgsNoDouble(values, arguments, i + 1)

RECURSIVE scanArgs(_, _, _)
\* the loop of parseFlags over the arguments, from argument i on
scanArgs(values, arguments, i) ==
    IF i > Len(arguments) THEN Nil
    ELSE LET chunks == Split(arguments[i], "=")
             arg == IF Len(chunks[1]) > 2 /\ SubSeq(chunks[1], 1, 2) = "--"
                    THEN SubSeq(chunks[1], 2, Len(chunks[1]))
                    ELSE chunks[1]
         IN  IF ~InValueMap(values, arg)
             THEN IF arg = helpArg \/ arg = helpArgShort
                  THEN scanArgs(values, arguments, i + 1)
                  ELSE Error("unexpected", "unexpected cli argument " \o Quote(arg))
             ELSE IF ~ValueMapAt(values, arg) \/ Len(chunks) > 1
             THEN scanArgs(values, arguments, i + 1)
             ELSE IF i + 1 <= Len(arguments)
             THEN scanArgs(values, arguments, i + 2)
             ELSE scanArgs(values, arguments, i + 1)

\* parseFlags leaving the arguments to the FlagSet without scanning them
parseFlagsUnscanned(fb, m, arguments) ==
    LET fs == attachFlags(fb, m) IN
    IF fs.panic THEN [panic |-> TRUE, err |-> Nil, mem |-> fs.mem]
    ELSE [panic |-> FALSE,
          err |-> fsParse(fs.formal, fs.mem, arguments).err,
          mem |-> fsParse(fs.formal, fs.mem, arguments).mem]

\* parseFlags: attach the flags to a new FlagSet, scan the arguments for
\* unexpected ones, then let the FlagSet parse them
parseFlags(fb, m, arguments) ==
    LET fs == attachFlags(fb, m)
        scanned == scanArgs(fb.values, arguments, 1)
    IN  IF fs.panic THEN [panic |-> TRUE, err |-> Nil, mem |-> fs.mem]
        ELSE IF scanned # Nil THEN [panic |-> FALSE, err |-> scanned, mem |-> fs.mem]
        ELSE [panic |-> FALSE,
              err |-> fsParse(fs.formal, fs.mem, arguments).err,
              mem |-> fsParse(fs.formal, fs.mem, arguments).mem]

\* an Extend method called on a copy of the structure: what it assigns is lost
ExtendOnCopy(ext, base, type, m) ==
    CASE ext.op = "fail" -> [err |-> Error("mock", "mock error in extension"), mem |-> m]
      [] ext.op = "set"  -> [err |-> Nil, mem |-> m]
      [] ext.op = "copy" -> [err |-> Nil, mem |-> m]

\* what the Extend method ext does to the structure at address base
Extend(ext, base, type, m) ==
    CASE ext.op = "fail" -> [err |-> Error("mock", "mock error in extension"), mem |-> m]
      [] ext.op = "set"  -> [err |-> Nil, mem |-> [m EXCEPT ![base \o ext.to] = ext.val]]
      [] ext.op = "copy" ->
            [err |-> Nil,
             mem |-> IF IsZero(type, m, base \o ext.from) THEN m
                     ELSE [m EXCEPT ![base \o ext.to] = m[base \o ext.from]]]

RECURSIVE runFrom(_, _, _, _, _)
\* runExtensionFunctions: call the collected functions in order, stop at the
\* first that fails; called lists the structures whose function was called
runFrom(extFns, k, type, m, called) ==
    IF k > Len(extFns) THEN [err |-> Nil, mem |-> m, called |-> called]
    ELSE LET r == Extend(extFns[k].ext, extFns[k].base, type, m) IN
         IF r.err # Nil
         THEN [err |-> Error("extension", "extension running failed: " \o r.err.msg),
               mem |-> r.mem, called |-> Append(called, extFns[k].base)]
         ELSE runFrom(extFns, k + 1, type, r.mem, Append(called, extFns[k].base))

\* runExtensionFunctions passing over the functions that fail
runExtensionFunctionsSkippingFailure(fb, type, m) ==
    runFrom(SelectSeq(fb.extFns, LAMBDA e : e.ext.op # "fail"), 1, type, m, <<>>)

\* runExtensionFunctions going through the list of the functions twice
runExtensionFunctionsTwice(fb, type, m) ==
    runFrom(fb.extFns \o fb.extFns, 1, type, m, <<>>)

\* runExtensionFunctions
runExtensionFunctions(fb, type, m) == runFrom(fb.extFns, 1, type, m, <<>>)

\* the orders in which a range over a map of n entries can visit them
Orders(n) == { p \in [1..n -> 1..n] : \A a, b \in 1..n : a # b => p[a] # p[b] }

\* validate returning at the first required flag found missing
validateFirstOnly(fb, type, m, p) ==
    LET visited == [k \in 1..Len(fb.required) |-> fb.required[p[k]]]
        hit == SelectSeq(visited, LAMBDA e : IsZero(type, m, e.addr))
    IN  IF Len(hit) = 0 THEN Nil
        ELSE [kind |-> "missing", names |-> <<hit[1].name>>,
              msg |-> "missing required flag " \o Quote(hit[1].name) \o " or its value"]

\* validate, with the entries of fb.required visited in the order p
validate(fb, type, m, p) ==
    LET visited == [k \in 1..Len(fb.required) |-> fb.required[p[k]]]
        hit == SelectSeq(visited, LAMBDA e : IsZero(type, m, e.addr))
        missing == [k \in 1..Len(hit) |-> hit[k].name]
    IN  IF Len(missing) = 0 THEN Nil
        ELSE IF Len(missing) = 1
        THEN [kind |-> "missing", names |-> missing,
              msg |-> "missing required flag " \o Quote(Join(missing, ", ")) \o " or its value"]
        ELSE [kind |-> "missing", names |-> missing,
              msg |-> "missing required flags " \o Quote(Join(missing, ", "))
                      \o " or their values"]

(***************************************************************************)
(* The structures and command lines explored                               *)
(***************************************************************************)
\* Params of the tests, with one field of each kind of annotation
ParamsType ==
    [fields |-> << Fld("Str", "string", "str|Testing string||required"),
                   Fld("Number", "int", "num|Testing number|123|"),
                   Fld("Boo", "bool", "boo|Testing boolean|true|"),
                   Fld("ExtNumber", "int", "extnum|Extender testing number|"),
                   Fld("UNumber", "uint", "unum|Testing number|12345|required"),
                   Fld("NotAFlagField", "string", "") >>,
     ext |-> ExtSet(<<4>>, "9999999")]

\* "success substructure"
SubstructType ==
    [fields |-> << Fld("Str", "string", "str|Testing string||required"),
                   StructFld("Substruct", "",
                       [fields |-> << Fld("Str2", "string", "str2|Testing string2|Str2 default|") >>,
                        ext |-> NoExt]) >>,
     ext |-> NoExt]

\* "success - fields without flags"
NoFlagsType ==
    [fields |-> << Fld("Str", "string", "str|Testing string||required"),
                   StructFld("AnotherField", "",
                       [fields |-> << Fld("SubstrStr", "string", "") >>, ext |-> NoExt]) >>,
     ext |-> NoExt]

\* "success boolean in allowed forms", the third with a default of true
BooleansType ==
    [fields |-> << Fld("Boo", "bool", "boo"),
                   Fld("Boo2", "bool", "boo2"),
                   Fld("Boo3", "bool", "boo3|Testing boolean|true") >>,
     ext |-> NoExt]

\* "fail - trying to overwrite the short help flag" and "... the long help flag"
ShortHelpType == [fields |-> << Fld("Boo", "bool", "h") >>, ext |-> NoExt]
LongHelpType == [fields |-> << Fld("Boo", "bool", "help") >>, ext |-> NoExt]
\* a reserved name in a nested structure, after a field that is collected
NestedHelpType ==
    [fields |-> << Fld("Str", "string", "str|Testing string|dflt"),
                   StructFld("Sub", "", LongHelpType) >>,
     ext |-> ExtSet(<<1>>, "extended")]

\* NestedParams
NestedParamsType ==
    [fields |-> << StructFld("Params", "", ParamsType),
                   Fld("AnotherThing", "string", "AnotherThing|Testing string|") >>,
     ext |-> ExtSet(<<2>>, "extended")]

\* FailingParams
FailingParamsType ==
    [fields |-> << Fld("NotImportant", "string", "ni|Testing string|") >>,
     ext |-> ExtFail]

\* "fail - fourth segment invalid", after a field that is collected
FourthType ==
    [fields |-> << Fld("Num", "int", "num|Testing number|5"),
                   Fld("Boo", "bool", "str|Testing string||whatever") >>,
     ext |-> NoExt]

\* a structure whose Extend fills the required user name from the alias
AliasType ==
    [fields |-> << Fld("Username", "string", "u|Username||required"),
                   Fld("Alias", "string", "alias|Other name"),
                   Fld("isAdmin", "bool", "") >>,
     ext |-> ExtCopy(<<2>>, <<1>>)]

\* a structure whose Extend clears its required field
ClearingType ==
    [fields |-> << Fld("Str", "string", "str|Testing string||required") >>,
     ext |-> ExtSet(<<1>>, "")]

\* a default text that does not decode, after a field that is collected
BadDefaultType ==
    [fields |-> << Fld("Str", "string", "str|Testing string|dflt"),
                   Fld("Num", "int", "num|Testing number|abc|") >>,
     ext |-> NoExt]

\* a field with a tag and a type outside the type switch
SliceType ==
    [fields |-> << Fld("Str", "string", "str|Testing string|dflt"),
                   Fld("List", "slice", "list|Testing list") >>,
     ext |-> NoExt]

\* three structures with an Extend method each, the second of which fails and
\* holds a required flag
ChainType ==
    [fields |-> << StructFld("First", "",
                       [fields |-> << Fld("A", "string", "a|First string") >>,
                        ext |-> ExtSet(<<1>>, "one")]),
                   StructFld("Second", "",
                       [fields |-> << Fld("B", "string", "b|Second string||required") >>,
                        ext |-> ExtFail]),
                   Fld("C", "string", "c|Third string") >>,
     ext |-> ExtSet(<<3>>, "top")]

\* structures nested two deep, with and without a tag of their own, with and
\* without an Extend method, and fields without a tag of several types
DeepType ==
    [fields |-> << StructFld("Outer", "outer|A tag on a structure",
                       [fields |-> << StructFld("Inner", "",
                                          [fields |-> << Fld("X", "string", "x|Deep string|dx") >>,
                                           ext |-> ExtSet(<<1>>, "inner")]),
                                      Fld("Y", "int", "y|Number||required"),
                                      Fld("Raw", "slice", "") >>,
                        ext |-> ExtSet(<<2>>, "5")]),
                   StructFld("Sibling", "",
                       [fields |-> << Fld("Z", "bool", "z"),
                                      Fld("note", "string", "") >>,
                        ext |-> ExtSet(<<2>>, "noted")]),
                   StructFld("Empty", "",
                       [fields |-> << Fld("Plain", "string", "") >>, ext |-> NoExt]),
                   Fld("Top", "string", "top|Top string") >>,
     ext |-> ExtSet(<<4>>, "last")]

\* a structure that keeps a structure in a field that is not exported
PrivateType ==
    [fields |-> << Fld("Str", "string", "str|Testing string|dflt"),
                   StructFld("state", "",
                       [fields |-> << Fld("count", "int", "") >>, ext |-> NoExt]) >>,
     ext |-> NoExt]

\* a default text out of the range of its type, between two fields that are in
\* order, in a structure with an Extend method; then two more defaults just
\* out of the range of their types
OverflowType ==
    [fields |-> << Fld("Str", "string", "str|Testing string|dflt"),
                   Fld("Big", "int64", "big|Testing number|9223372036854775808"),
                   Fld("After", "bool", "after|Testing boolean|true"),
                   Fld("Low", "int", "low|Testing number|-9223372036854775809"),
                   Fld("Huge", "uint64", "huge|Testing number|18446744073709551616") >>,
     ext |-> ExtSet(<<1>>, "extended")]

\* the integer types with the defaults at the ends of their ranges (the uint at
\* the end of the 32 bit range), a required number and one without a default
WidthsType ==
    [fields |-> << Fld("I", "int", "i|Smallest int|-9223372036854775808"),
                   Fld("I64", "int64", "i64|Largest int64|9223372036854775807"),
                   Fld("U", "uint", "u|Largest 32 bit number|4294967295"),
                   Fld("U64", "uint64", "u64|Largest uint64|18446744073709551615"),
                   Fld("N", "uint", "n|Count||required"),
                   Fld("M", "int", "m|Number without a default") >>,
     ext |-> NoExt]

\* a uint whose default needs more than 32 bits
WideUintType ==
    [fields |-> << Fld("U", "uint", "u|Unsigned number|4294967296") >>,
     ext |-> NoExt]

\* a tag whose first segment is blank
BlankType ==
    [fields |-> << Fld("Str", "string", "str|Testing string|dflt"),
                   Fld("Flag", "bool", " |A flag without a name") >>,
     ext |-> NoExt]

\* each structure with the arguments its command lines are made of
Scenarios ==
    { [type |-> "Params",
       tokens |-> {"--str=asdf", "-unum=17", "-num", "15", "-boo=false", "-random", "-h"}],
      [type |-> "Substruct", tokens |-> {"-str=asdf", "-str2", "fdsa", "--help", "-str="}],
      [type |-> "NoFlags", tokens |-> {"-str=asdf", "stuff"}],
      [type |-> "Booleans", tokens |-> {"-boo", "-boo2=true", "-boo3=false", "--boo", "false"}],
      [type |-> "ShortHelp", tokens |-> {"", "-h"}],
      [type |-> "LongHelp", tokens |-> {"", "-help=false"}],
      [type |-> "NestedHelp", tokens |-> {"-str=asdf", "-zz"}],
      [type |-> "NestedParams", tokens |-> {"-str=asdf", "-unum=17", "-AnotherThing=x"}],
      [type |-> "FailingParams", tokens |-> {"-ni=x", "-h", "-ni"}],
      [type |-> "Fourth", tokens |-> {"", "-str", "-num=x"}],
      [type |-> "Alias", tokens |-> {"-u=admin", "-alias=bob", "-help"}],
      [type |-> "Clearing", tokens |-> {"-str=asdf"}],
      [type |-> "BadDefault", tokens |-> {"-str=asdf", "-num=1"}],
      [type |-> "Slice", tokens |-> {"-str=asdf", "-list=1"}],
      [type |-> "Chain", tokens |-> {"-a=x", "-b=y"}],
      [type |-> "Deep", tokens |-> {"-x=1", "--y=2", "-z"}],
      [type |-> "Private", tokens |-> {"-str=asdf"}],
      [type |-> "Overflow", tokens |-> {"-str=asdf", "-after"}],
      [type |-> "Widths", tokens |-> {"-n=0", "-n", "3"}],
      [type |-> "WideUint", tokens |-> {"-u=1"}],
      [type |-> "Blank", tokens |-> {"-", "-str=asdf", "--", ""}] }

\* the structure type of a name
TypeNamed(n) ==
    CASE n = "Params" -> ParamsType
      [] n = "Substruct" -> SubstructType
      [] n = "NoFlags" -> NoFlagsType
      [] n = "Booleans" -> BooleansType
      [] n = "ShortHelp" -> ShortHelpType
      [] n = "LongHelp" -> LongHelpType
      [] n = "NestedHelp" -> NestedHelpType
      [] n = "NestedParams" -> NestedParamsType
      [] n = "FailingParams" -> FailingParamsType
      [] n = "Fourth" -> FourthType
      [] n = "Alias" -> AliasType
      [] n = "Clearing" -> ClearingType
      [] n = "BadDefault" -> BadDefaultType
      [] n = "Slice" -> SliceType
      [] n = "Chain" -> ChainType
      [] n = "Deep" -> DeepType
      [] n = "Private" -> PrivateType
      [] n = "Overflow" -> OverflowType
      [] n = "Widths" -> WidthsType
      [] n = "WideUint" -> WideUintType
      [] n = "Blank" -> BlankType

\* the command lines of at most MaxArgs arguments over a set of tokens
ArgLists(tokens) == UNION { [1..n -> tokens] : n \in 0..MaxArgs }

\* a value other than the zero value, as a caller may leave it in a field
Sample(kind) ==
    IF kind = "bool" THEN TRUE
    ELSE IF kind \in IntKinds THEN "7"
    ELSE "old"

SampleStruct(type) == [a \in Leaves(type, <<>>) |-> Sample(FieldAt(type, a).kind)]

\* what can be passed as params: nil, a structure, a nil pointer, a pointer to a
\* string, a pointer to a structure; rtype is its reflect.Type
NilParam == [kind |-> "invalid", isNil |-> FALSE, elem |-> "invalid", rtype |-> ""]
ValueParam == [kind |-> "struct", isNil |-> FALSE, elem |-> "invalid", rtype |-> "cli.Params"]
NilPtrParam == [kind |-> "ptr", isNil |-> TRUE, elem |-> "invalid", rtype |-> "*cli.Params"]
StrPtrParam == [kind |-> "ptr", isNil |-> FALSE, elem |-> "string", rtype |-> "*string"]
StructPtrParam == [kind |-> "ptr", isNil |-> FALSE, elem |-> "struct", rtype |-> "*cli.Params"]

ParamValues == {NilParam, ValueParam, NilPtrParam, StrPtrParam, StructPtrParam}

\* the memory behind params: the fields of the structure, the string behind a
\* pointer to a string, nothing behind nil
Memory(p, type, filled) ==
    IF p.kind = "struct" \/ (p.kind = "ptr" /\ ~p.isNil /\ p.elem = "struct")
    THEN IF filled THEN SampleStruct(type) ELSE ZeroStruct(type)
    ELSE IF p.kind = "ptr" /\ ~p.isNil THEN [a \in {<<>>} |-> "wrong params"]
    ELSE [a \in {} |-> ""]

(***************************************************************************)
(* flag.go: ParseAndLoadFlags                                              *)
(***************************************************************************)
VARIABLES
    typ,        \* the name of the structure type of the call
    params,     \* the value passed as params
    args,       \* os.Args[1:]
    pre,        \* the memory behind params when the call was made
    mem,        \* the memory behind params
    fb,         \* the flagBuilder of the call
    pc,         \* where the call stands
    retErr,     \* the error returned
    exitCode,   \* the code of os.Exit, -1 while the process runs
    ran,        \* the stages that have run, in order
    called,     \* the structures whose Extend was called, in order
    parsed,     \* the memory as parseFlags left it
    extended    \* the memory as runExtensionFunctions left it

vars == <<typ, params, args, pre, mem, fb, pc, retErr, exitCode, ran, called, parsed,
          extended>>

\* the structure type of the call
T == TypeNamed(typ)

\* InvalidParamsError{reflect.TypeOf(params)} and its Error()
InvalidParamsError(rtype, kind) ==
    [kind |-> "InvalidParams", names |-> <<rtype>>,
     msg |-> IF rtype = "" THEN "flags parse: got <nil>"
             ELSE IF kind # "ptr" THEN "flags parse: got non-pointer " \o rtype
             ELSE "flags parse: got " \o rtype]

Init ==
    \E sc \in Scenarios, p \in ParamValues, filled \in BOOLEAN :
        /\ typ = sc.type
        /\ params = p
        /\ args \in ArgLists(sc.tokens)
        /\ pre = Memory(p, TypeNamed(sc.type), filled)
        /\ mem = pre
        /\ fb = newFlagBuilder
        /\ pc = "call"
        /\ retErr = Nil
        /\ exitCode = -1
        /\ ran = <<>>
        /\ called = <<>>
        /\ parsed = pre
        /\ extended = pre

\* CheckParams without the test that the pointer leads to a structure
CheckParamsAnyPointer ==
    /\ pc = "call"
    /\ IF params.kind # "ptr" \/ params.isNil
       THEN /\ retErr' = InvalidParamsError(params.rtype, params.kind)
            /\ pc' = "returned"
       ELSE /\ pc' = "setup"
            /\ UNCHANGED retErr
    /\ UNCHANGED <<typ, params, args, pre, mem, fb, exitCode, ran, called, parsed, extended>>

\* the check of params, and the registration of the deferred function
CheckParams ==
    /\ pc = "call"
    /\ IF params.kind # "ptr" \/ params.isNil \/ params.elem # "struct"
       THEN /\ retErr' = InvalidParamsError(params.rtype, params.kind)
            /\ pc' = "returned"
       ELSE /\ pc' = "setup"
            /\ UNCHANGED retErr
    /\ UNCHANGED <<typ, params, args, pre, mem, fb, exitCode, ran, called, parsed, extended>>

\* SetUp with a setUpFlags that panics on a tagged field of an unsupported type
SetUpPanickingOnType ==
    /\ pc = "setup"
    /\ ran' = Append(ran, "setUpFlags")
    /\ LET r == setUpFlags(newFlagBuilder, T, <<>>) IN
       /\ fb' = r.fb
       /\ retErr' = IF r.err.kind = "type" THEN Nil ELSE r.err
       /\ pc' = IF r.panic \/ r.err.kind = "type" THEN "panicked"
                ELSE IF r.err # Nil THEN "defer" ELSE "parse"
    /\ UNCHANGED <<typ, params, args, pre, mem, exitCode, called, parsed, extended>>

\* SetUp going on to parseFlags whatever setUpFlags returned
SetUpIgnoringError ==
    /\ pc = "setup"
    /\ ran' = Append(ran, "setUpFlags")
    /\ LET r == setUpFlags(newFlagBuilder, T, <<>>) IN
       /\ fb' = r.fb
       /\ retErr' = r.err
       /\ pc' = IF r.panic THEN "panicked" ELSE "parse"
    /\ UNCHANGED <<typ, params, args, pre, mem, exitCode, called, parsed, extended>>

\* fb := newFlagBuilder(); fb.setUpFlags(params).  On a pointer to something
\* that is no structure reflect's NumField panics; a panic of setUpFlags ends
\* the call with the structure as it was (the deferred function sees no error).
SetUp ==
    /\ pc = "setup"
    /\ ran' = Append(ran, "setUpFlags")
    /\ IF params.elem # "struct"
       THEN /\ pc' = "panicked"
            /\ UNCHANGED <<fb, retErr>>
       ELSE LET r == setUpFlags(newFlagBuilder, T, <<>>) IN
            /\ fb' = r.fb
            /\ retErr' = r.err
            /\ pc' = IF r.panic THEN "panicked"
                     ELSE IF r.err # Nil THEN "defer" ELSE "parse"
    /\ UNCHANGED <<typ, params, args, pre, mem, exitCode, called, parsed, extended>>

\* Parse returning flag.ErrHelp to the caller like any other error
ParseReturnsHelp ==
    /\ pc = "parse"
    /\ ran' = Append(ran, "parseFlags")
    /\ LET r == parseFlags(fb, mem, args) IN
       /\ mem' = r.mem
       /\ parsed' = r.mem
       /\ extended' = r.mem
       /\ IF r.panic
          THEN pc' = "panicked" /\ UNCHANGED retErr
          ELSE IF r.err # Nil
          THEN pc' = "defer" /\ retErr' = r.err
          ELSE pc' = "extend" /\ UNCHANGED retErr
    /\ UNCHANGED <<typ, params, args, pre, fb, called, exitCode>>

\* fb.parseFlags(os.Args[1:]), and os.Exit(0) when the error is flag.ErrHelp
Parse ==
    /\ pc = "parse"
    /\ ran' = Append(ran, "parseFlags")
    /\ LET r == parseFlags(fb, mem, args) IN
       /\ mem' = r.mem
       /\ parsed' = r.mem
       /\ extended' = r.mem
       /\ IF r.panic
          THEN pc' = "panicked" /\ UNCHANGED <<retErr, exitCode>>
          ELSE IF r.err = ErrHelp
          THEN pc' = "exited" /\ exitCode' = 0 /\ UNCHANGED retErr
          ELSE IF r.err # Nil
          THEN pc' = "defer" /\ retErr' = r.err /\ UNCHANGED exitCode
          ELSE pc' = "extend" /\ UNCHANGED <<retErr, exitCode>>
    /\ UNCHANGED <<typ, params, args, pre, fb, called>>

\* fb.runExtensionFunctions()
RunExtensions ==
    /\ pc = "extend"
    /\ ran' = Append(ran, "runExtensionFunctions")
    /\ LET r == runExtensionFunctions(fb, T, mem) IN
       /\ mem' = r.mem
       /\ extended' = r.mem
       /\ called' = r.called
       /\ retErr' = r.err
       /\ pc' = IF r.err # Nil THEN "defer" ELSE "validate"
    /\ UNCHANGED <<typ, params, args, pre, fb, exitCode, parsed>>

\* Validate judging the values parseFlags left, not those of the extensions
ValidateParsed ==
    /\ pc = "validate"
    /\ ran' = Append(ran, "validate")
    /\ \E p \in Orders(Len(fb.required)) : retErr' = validate(fb, T, parsed, p)
    /\ pc' = "defer"
    /\ UNCHANGED <<typ, params, args, pre, mem, fb, exitCode, called, parsed, extended>>

\* Validate judging only the required flags that the command line does not name
ValidateUnnamed ==
    /\ pc = "validate"
    /\ ran' = Append(ran, "validate")
    /\ LET unnamed == SelectSeq(fb.required,
                                LAMBDA e : \A i \in 1..Len(args) :
                                    Split(args[i], "=")[1] \notin {"-" \o e.name, "--" \o e.name})
       IN  \E p \in Orders(Len(unnamed)) :
               retErr' = validate([fb EXCEPT !.required = unnamed], T, mem, p)
    /\ pc' = "defer"
    /\ UNCHANGED <<typ, params, args, pre, mem, fb, exitCode, called, parsed, extended>>

\* return fb.validate()
Validate ==
    /\ pc = "validate"
    /\ ran' = Append(ran, "validate")
    /\ \E p \in Orders(Len(fb.required)) : retErr' = validate(fb, T, mem, p)
    /\ pc' = "defer"
    /\ UNCHANGED <<typ, params, args, pre, mem, fb, exitCode, called, parsed, extended>>

\* Deferred clearing only the fields that flags were collected for
DeferredFlagsOnly ==
    /\ pc = "defer"
    /\ mem' = IF retErr # Nil
              THEN [a \in DOMAIN mem |->
                       IF \E k \in 1..Len(fb.flags) : fb.flags[k].addr = a
                       THEN ZeroOf(FieldAt(T, a).kind) ELSE mem[a]]
              ELSE mem
    /\ pc' = "returned"
    /\ UNCHANGED <<typ, params, args, pre, fb, retErr, exitCode, ran, called, parsed,
                   extended>>

\* the deferred function: on an error the structure is set to its zero value
Deferred ==
    /\ pc = "defer"
    /\ mem' = IF retErr # Nil THEN ZeroStruct(T) ELSE mem
    /\ pc' = "returned"
    /\ UNCHANGED <<typ, params, args, pre, fb, retErr, exitCode, ran, called, parsed,
                   extended>>

Next ==
    \/ CheckParams
    \/ SetUp
    \/ Parse
    \/ RunExtensions
    \/ Validate
    \/ Deferred

Spec == Init /\ [][Next]_vars

(***************************************************************************)
(* Properties                                                              *)
(***************************************************************************)
\* params is a pointer, not nil, to a structure
ValidTarget == params.kind = "ptr" /\ ~params.isNil /\ params.elem = "struct"

\* the fields that carry a flag tag and are no structures
FlagFields(type) == { a \in Leaves(type, <<>>) : FieldAt(type, a).tag # "" }

\* strings.Split(flagMetadata, "|") of every tagged field of the structures
\* explored, computed once
TagSegments ==
    [type \in { TypeNamed(sc.type) : sc \in Scenarios } |->
        [a \in FlagFields(type) |-> Split(FieldAt(type, a).tag, "|")]]

\* the segments of the tag of the field at an address, and the flag name in it
Segments(type, a) == TagSegments[type][a]
TagName(type, a) == TrimSpace(Segments(type, a)[1])

\* the fields whose tag carries the required marker
RequiredFields(type) ==
    { a \in FlagFields(type) : Len(Segments(type, a)) > 3 /\ Segments(type, a)[4] = "required" }

Range(f) == { f[x] : x \in DOMAIN f }

Stages == <<"setUpFlags", "parseFlags", "runExtensionFunctions", "validate">>

\* C1: when ParseAndLoadFlags, called with a pointer to a structure, returns an
\* error, whatever the stage that failed, every field of the structure (nested
\* and untagged fields too) holds the zero value of its type.
C1_ZeroOnError ==
    (pc = "returned" /\ ValidTarget /\ retErr # Nil)
        => \A a \in Leaves(T, <<>>) : mem[a] = ZeroOf(FieldAt(T, a).kind)

\* C1 witness: validation failed after the caller's values, the parsed values
\* and a value written by Extend had been in the structure
C1_Witness ==
    /\ pc = "returned" /\ ValidTarget /\ retErr.kind = "missing"
    /\ called # <<>>
    /\ \E a \in DOMAIN pre : pre[a] # ZeroOf(FieldAt(T, a).kind) /\ FieldAt(T, a).tag = ""
    /\ \E a \in DOMAIN parsed : parsed[a] # pre[a] /\ parsed[a] # ZeroOf(FieldAt(T, a).kind)
    /\ extended # parsed

\* C2: a params that is nil, no pointer, a nil pointer or a pointer to something
\* else than a structure makes the call return an InvalidParamsError with the
\* type of params; no stage runs and the value passed stays as it was.
C2_InvalidParams ==
    ~ValidTarget =>
        /\ pc \in {"call", "returned"}
        /\ ran = <<>> /\ called = <<>> /\ fb = newFlagBuilder
        /\ mem = pre
        /\ pc = "returned" => (retErr.kind = "InvalidParams" /\ retErr.names = <<params.rtype>>)

\* C2 witness: the call returned for a pointer to a string, the string untouched
C2_Witness ==
    /\ pc = "returned" /\ params.kind = "ptr" /\ params.elem = "string"
    /\ mem[<<>>] = "wrong params"
    /\ retErr.msg = "flags parse: got *string"

\* The command line as the token grammar reads it: -name, --name, -name=value,
\* --name=value, and -name value for a flag that is no boolean.
TokenBody(t) ==
    IF HasPrefix(t, "--") THEN SubSeq(t, 3, Len(t))
    ELSE IF HasPrefix(t, "-") THEN SubSeq(t, 2, Len(t))
    ELSE ""
TokenHasValue(t) == Index(TokenBody(t), "=") # 0
TokenName(t) ==
    IF TokenHasValue(t) THEN SubSeq(TokenBody(t), 1, Index(TokenBody(t), "=") - 1)
    ELSE TokenBody(t)
TokenValue(t) == SubSeq(TokenBody(t), Index(TokenBody(t), "=") + 1, Len(TokenBody(t)))

IsFlagName(type, name) == \E a \in FlagFields(type) : TagName(type, a) = name
FlagNamed(type, name) == CHOOSE a \in FlagFields(type) : TagName(type, a) = name

NotWellFormed == [ok |-> FALSE, sets |-> <<>>]
After(set, r) == IF r.ok THEN [ok |-> TRUE, sets |-> <<set>> \o r.sets] ELSE NotWellFormed

RECURSIVE Reading(_, _)
\* whether the arguments are a well-formed command line for the flags of the
\* type, and the assignments [addr, val] it then makes, in order
Reading(type, arguments) ==
    IF Len(arguments) = 0 THEN [ok |-> TRUE, sets |-> <<>>]
    ELSE LET t == arguments[1] IN
         IF TokenBody(t) = "" \/ ~IsFlagName(type, TokenName(t)) THEN NotWellFormed
         ELSE LET a == FlagNamed(type, TokenName(t))
                  kind == FieldAt(type, a).kind
              IN  IF TokenHasValue(t)
                  THEN IF flagValueSet(kind, TokenValue(t)).ok
                       THEN After([addr |-> a, val |-> flagValueSet(kind, TokenValue(t)).val],
                                  Reading(type, Tail(arguments)))
                       ELSE NotWellFormed
                  ELSE IF kind = "bool"
                  THEN After([addr |-> a, val |-> TRUE], Reading(type, Tail(arguments)))
                  ELSE IF Len(arguments) > 1 /\ flagValueSet(kind, arguments[2]).ok
                  THEN After([addr |-> a, val |-> flagValueSet(kind, arguments[2]).val],
                             Reading(type, Tail(Tail(arguments))))
                  ELSE NotWellFormed

\* the value the command line gives the field at address a last, if it gives one
Supplied(type, arguments, a) ==
    \E k \in 1..Len(Reading(type, arguments).sets) : Reading(type, arguments).sets[k].addr = a
LastSupplied(type, arguments, a) ==
    LET sets == Reading(type, arguments).sets
        k == CHOOSE j \in 1..Len(sets) :
                 sets[j].addr = a /\ \A l \in (j + 1)..Len(sets) : sets[l].addr # a
    IN  sets[k].val

\* the default text of a tag: its third segment, trimmed, dropped when the flag
\* is required
DefaultText(type, a) ==
    IF Len(Segments(type, a)) > 2 /\ a \notin RequiredFields(type)
    THEN TrimSpace(Segments(type, a)[3]) ELSE ""

\* every structure on the way to the field at an address is kept in an
\* exported field
ReachableByReflection(type, a) ==
    \A k \in 1..(Len(a) - 1) : IsExported(FieldAt(type, SubSeq(a, 1, k)).name)

\* a structure whose tags are all in order: exported fields, supported types,
\* names that are proper, not reserved and not used twice, a fourth segment
\* that is absent, empty or the required marker, default texts that decode
ValidStructure(type) ==
    /\ \A a \in Leaves(type, <<>>) : ReachableByReflection(type, a)
    /\ \A a \in FlagFields(type) :
          /\ IsExported(FieldAt(type, a).name)
          /\ FieldAt(type, a).kind \in PrimitiveKinds
          /\ TagName(type, a) \notin {"", "h", "help"}
          /\ ~HasPrefix(TagName(type, a), "-") /\ Index(TagName(type, a), "=") = 0
          /\ Len(Segments(type, a)) > 3 => Segments(type, a)[4] \in {"", "required"}
          /\ DefaultText(type, a) # "" => tParser(FieldAt(type, a).kind, DefaultText(type, a)).ok
    /\ \A a, b \in FlagFields(type) : TagName(type, a) = TagName(type, b) => a = b

\* the value a field is to hold after a call that succeeded: the one parsed
\* from the command line, else the decoded default
Expected(type, arguments, a) ==
    IF Supplied(type, arguments, a) THEN LastSupplied(type, arguments, a)
    ELSE IF DefaultText(type, a) = "" THEN ZeroOf(FieldAt(type, a).kind)
    ELSE tParser(FieldAt(type, a).kind, DefaultText(type, a)).val

\* the Extend method of the structure at an address
ExtAt(type, base) == IF base = <<>> THEN type.ext ELSE FieldAt(type, base).sub.ext

RECURSIVE Structs(_, _)
\* the addresses of the structures of a type, its own (base) included
Structs(type, base) ==
    {base} \cup UNION { IF type.fields[i].kind = "struct"
                        THEN Structs(type.fields[i].sub, Append(base, i))
                        ELSE {} : i \in 1..Len(type.fields) }

\* the fields that the Extend methods called so far assign
HookTargets ==
    { b \o ExtAt(T, b).to : b \in { c \in Range(called) : ExtAt(T, c).op \in {"set", "copy"} } }

\* no Extend method fails or clears a required field
HooksBenign(type) ==
    \A b \in Structs(type, <<>>) :
        /\ ExtAt(type, b).op # "fail"
        /\ (ExtAt(type, b).op = "set" /\ b \o ExtAt(type, b).to \in RequiredFields(type))
               => ExtAt(type, b).val # ZeroOf(FieldAt(type, b \o ExtAt(type, b).to).kind)

\* the command line is well formed and gives every required flag a value that
\* is not zero
RequiredSupplied(type, arguments) ==
    /\ Reading(type, arguments).ok
    /\ \A a \in RequiredFields(type) :
          /\ Supplied(type, arguments, a)
          /\ LastSupplied(type, arguments, a) # ZeroOf(FieldAt(type, a).kind)

Ended == pc \in {"returned", "exited", "panicked"}

\* what C3 promises of a call that has ended
SucceededWithValues ==
    /\ pc = "returned" /\ retErr = Nil
    /\ \A a \in FlagFields(T) : mem[a] = Expected(T, args, a) \/ a \in HookTargets

\* C3 as stated: for a valid structure and a well-formed command line that gives
\* every required flag a value that is not zero, the call returns no error and
\* every tagged field holds the value parsed from the command line or else its
\* decoded default, unless an Extend method assigned it.
C3_AsStated ==
    (ValidTarget /\ (Ended \/ pc = "defer") /\ ValidStructure(T) /\ RequiredSupplied(T, args))
        => /\ retErr = Nil
           /\ Ended => SucceededWithValues

\* C3 amended: the same, for structures none of whose Extend methods fails or
\* clears a required field.
C3_ValuesOrDefaults ==
    (ValidTarget /\ (Ended \/ pc = "defer") /\ ValidStructure(T) /\ HooksBenign(T)
     /\ RequiredSupplied(T, args))
        => /\ retErr = Nil
           /\ Ended => SucceededWithValues

\* C3 witness: a call returned with a parsed value in one tagged field, a
\* default that is not zero in another and a value assigned by Extend in a third
C3_Witness ==
    /\ pc = "returned" /\ ValidTarget /\ pre # ZeroStruct(T)
    /\ ValidStructure(T) /\ HooksBenign(T) /\ RequiredSupplied(T, args)
    /\ \E a \in FlagFields(T) : Supplied(T, args, a) /\ mem[a] = LastSupplied(T, args, a)
    /\ \E a \in FlagFields(T) :
          ~Supplied(T, args, a) /\ DefaultText(T, a) # "" /\ mem[a] # pre[a]
    /\ \E a \in HookTargets : mem[a] # Expected(T, args, a)

\* the names of the required flags whose field is zero in the memory m
ZeroRequiredNames(m) ==
    { TagName(T, a) : a \in { b \in RequiredFields(T) : m[b] = ZeroOf(FieldAt(T, b).kind) } }

\* validate has just returned
Validated == pc = "defer" /\ Len(ran) = 4

\* C4: validation names, in one error, exactly the required flags whose field
\* is zero after parsing and extensions, each once, and returns no error when
\* there is none.
C4_AllMissingNamed ==
    Validated =>
        IF ZeroRequiredNames(mem) = {} THEN retErr = Nil
        ELSE /\ retErr.kind = "missing"
             /\ Range(retErr.names) = ZeroRequiredNames(mem)
             /\ Len(retErr.names) = Cardinality(ZeroRequiredNames(mem))
             /\ \E p \in Orders(Len(retErr.names)) :
                   retErr.msg \in
                     { "missing required flag " \o Quote(Join([k \in 1..Len(p) |-> retErr.names[p[k]]], ", "))
                           \o " or its value",
                       "missing required flags " \o Quote(Join([k \in 1..Len(p) |-> retErr.names[p[k]]], ", "))
                           \o " or their values" }

\* C4 witness: two required flags are missing while a third flag was parsed
C4_Witness ==
    /\ Validated /\ Len(retErr.names) = 2
    /\ \E a \in FlagFields(T) : mem[a] # ZeroOf(FieldAt(T, a).kind) /\ Supplied(T, args, a)

\* a is a prefix of b
IsPrefix(a, b) == Len(a) <= Len(b) /\ a = SubSeq(b, 1, Len(a))

\* an argument of the command line names the flag
Named(arguments, name) == \E i \in 1..Len(arguments) : TokenName(arguments[i]) = name

\* C5: the Extend methods run after parseFlags and before validate, and validate
\* judges the values they left: a required flag that the command line does not
\* name but whose field Extend gave a value is not missing, the call succeeds
\* when no other required field is zero, and the field keeps that value.
C5_ValidateSeesExtensions ==
    /\ IsPrefix(ran, Stages)
    /\ called # <<>> => Len(ran) >= 3
    /\ (pc \in {"defer", "returned"} /\ Len(ran) = 4) =>
          /\ \A a \in RequiredFields(T) :
                (~Named(args, TagName(T, a)) /\ extended[a] # ZeroOf(FieldAt(T, a).kind))
                    => /\ TagName(T, a) \notin Range(retErr.names)
                       /\ retErr = Nil => mem[a] = extended[a]
          /\ (\A a \in RequiredFields(T) : extended[a] # ZeroOf(FieldAt(T, a).kind))
                => retErr = Nil

\* C5 witness: a call succeeded whose required flag the command line does not
\* name, the field holding what Extend copied from another flag
C5_Witness ==
    /\ pc = "returned" /\ retErr = Nil /\ ValidTarget
    /\ \E a \in RequiredFields(T) :
          /\ ~Named(args, TagName(T, a))
          /\ parsed[a] = ZeroOf(FieldAt(T, a).kind)
          /\ mem[a] # ZeroOf(FieldAt(T, a).kind)
          /\ \E b \in FlagFields(T) : b # a /\ Supplied(T, args, b) /\ mem[a] = parsed[b]

\* C6: when parseFlags reports flag.ErrHelp the process exits with code 0 at
\* once: no Extend method is called, validate does not run, no error is
\* returned, and nothing happens afterwards.
C6_HelpExits ==
    /\ (Len(ran) >= 2 /\ parseFlags(fb, pre, args).err = ErrHelp) => pc = "exited"
    /\ pc = "exited" =>
          /\ exitCode = 0
          /\ ran = <<"setUpFlags", "parseFlags">>
          /\ called = <<>>
          /\ retErr = Nil
          /\ ~ENABLED Next

\* C6 witness: the process exited for help although a required flag is missing
C6_Witness ==
    /\ pc = "exited"
    /\ \E a \in RequiredFields(T) : mem[a] = ZeroOf(FieldAt(T, a).kind)

HelpSpellings == {"-h", "-help", "--h", "--help"}

\* C7: whenever the command line holds one of the help spellings, a call that
\* got as far as parsing the command line ends in the exit for help, whatever
\* the other arguments.
C7_HelpAlwaysWins ==
    (ValidTarget /\ Len(ran) >= 2 /\ \E i \in 1..Len(args) : args[i] \in HelpSpellings)
        => pc = "exited"

\* a tagged field of the type claims the name h or help
HasReservedName(type) ==
    \E a \in FlagFields(type) : TagName(type, a) \in {"h", "help"}

HasBadFourth(type) ==
    \E a \in FlagFields(type) :
        Len(Segments(type, a)) > 3 /\ Segments(type, a)[4] \notin {"", "required"}

C10_RequiredDropsDefault ==
    /\ \A k \in 1..Len(fb.flags) :
          fb.flags[k].addr \in RequiredFields(T)
              => fb.flags[k].defaultVal = ZeroOf(fb.flags[k].kind)
    /\ (Len(ran) >= 2 /\ pc # "returned") =>
          \A a \in RequiredFields(T) :
              ~Named(args, TagName(T, a)) => parsed[a] = ZeroOf(FieldAt(T, a).kind)
    /\ Validated =>
          \A a \in RequiredFields(T) :
              (~Named(args, TagName(T, a)) /\ a \notin HookTargets)
                  => TagName(T, a) \in Range(retErr.names)

\* C10 witness: a required flag whose tag carries a default is reported missing
C10_Witness ==
    /\ Validated
    /\ \E a \in RequiredFields(T) :
          /\ TrimSpace(Segments(T, a)[3]) # ""
          /\ ~Named(args, TagName(T, a))
          /\ pre[a] # ZeroOf(FieldAt(T, a).kind)
          /\ retErr.names = <<TagName(T, a)>>

\* the structures whose Extend method was collected, in the order of fb.extFns
HookList == [k \in 1..Len(fb.extFns) |-> fb.extFns[k].base]

\* the Extend method called last returned an error
LastHookFailed == called # <<>> /\ ExtAt(T, called[Len(called)]).op = "fail"

\* C11: runExtensionFunctions calls the collected Extend methods one at a time
\* in the order of the list; at the first that returns an error it stops, calls
\* none of those after it and returns "extension running failed: " followed by
\* the error of that method; ParseAndLoadFlags returns this error and the
\* structure is zero.
C11_HooksStopAtFirstError ==
    Len(ran) >= 3 =>
        /\ IsPrefix(called, HookList)
        /\ \A k \in 1..(Len(called) - 1) : ExtAt(T, called[k]).op # "fail"
        /\ IF LastHookFailed
           THEN /\ pc \in {"defer", "returned"}
                /\ ran = SubSeq(Stages, 1, 3)
                /\ retErr.kind = "extension"
                /\ retErr.msg = "extension running failed: "
                                   \o Extend(ExtFail, called[Len(called)], T, parsed).err.msg
                /\ \A k \in (Len(called) + 1)..Len(HookList) :
                      ExtAt(T, HookList[k]).op = "set"
                          => extended[HookList[k] \o ExtAt(T, HookList[k]).to]
                                 = parsed[HookList[k] \o ExtAt(T, HookList[k]).to]
                /\ pc = "returned" => mem = ZeroStruct(T)
           ELSE /\ called = HookList
                /\ Len(ran) = 3 => (pc = "validate" /\ retErr = Nil)

\* C11 witness: the second of three Extend methods failed after the first had
\* assigned its field, the third was not called, and the call returned the
\* error with the structure zero
C11_Witness ==
    /\ pc = "returned" /\ retErr.kind = "extension"
    /\ Len(called) = 2 /\ Len(fb.extFns) = 3
    /\ extended[called[1] \o ExtAt(T, called[1]).to] = ExtAt(T, called[1]).val
    /\ extended # ZeroStruct(T) /\ mem = ZeroStruct(T)

\* the structures of the type that have an Extend method
HookedStructs == { b \in Structs(T, <<>>) : ExtAt(T, b).op # "none" }

\* the structure at address a holds the one at address b
Contains(a, b) == Len(a) < Len(b) /\ a = SubSeq(b, 1, Len(a))

\* of two structures neither of which holds the other, the one at address a is
\* declared first
DeclaredBefore(a, b) ==
    \E k \in 1..Len(a) :
        k <= Len(b) /\ SubSeq(a, 1, k - 1) = SubSeq(b, 1, k - 1) /\ a[k] < b[k]

\* setUpFlags has returned without an error
Collected == pc = "parse" \/ Len(ran) >= 2

\* C12: the Extend method of a structure is collected after its fields have
\* been gone through: every structure with an Extend method is in the list
\* once, a nested structure before the one that holds it, structures that do
\* not hold one another in the order of declaration, the structure passed to
\* the call last; and the methods are called in that order.
C12_NestedHooksFirst ==
    Collected =>
        /\ Range(HookList) = HookedStructs
        /\ Len(HookList) = Cardinality(HookedStructs)
        /\ \A i, j \in 1..Len(HookList) :
              i < j => /\ ~Contains(HookList[i], HookList[j])
                       /\ ~Contains(HookList[j], HookList[i])
                              => DeclaredBefore(HookList[i], HookList[j])
        /\ T.ext.op # "none" => HookList[Len(HookList)] = <<>>
        /\ (Len(ran) >= 3 /\ ~LastHookFailed) => called = HookList

\* C12 witness: four Extend methods were called, that of a structure nested two
\* deep first, then that of the structure holding it, then that of a structure
\* declared later, then that of the structure passed to the call
C12_Witness ==
    /\ Len(ran) >= 3 /\ Len(called) = 4
    /\ Len(called[1]) = 2 /\ called[2] = SubSeq(called[1], 1, 1)
    /\ Len(called[3]) = 1 /\ called[3] # called[2]
    /\ called[4] = <<>>

\* a token that asks for help: h or help after one or two hyphens
IsHelpToken(t) == HasPrefix(t, "-") /\ TokenName(t) \in {"h", "help"}

RECURSIVE FirstOffending(_, _, _)
\* the position of the first argument, from position i on, that stands where a
\* flag is expected and is neither a flag of the type nor a request for help;
\* 0 when there is none.  The value of a flag that is no boolean and comes
\* without an equals sign is the argument after it.
FirstOffending(type, arguments, i) ==
    IF i > Len(arguments) THEN 0
    ELSE LET t == arguments[i] IN
         IF IsHelpToken(t) THEN FirstOffending(type, arguments, i + 1)
         ELSE IF ~HasPrefix(t, "-") \/ ~IsFlagName(type, TokenName(t)) THEN i
         ELSE IF FieldAt(type, FlagNamed(type, TokenName(t))).kind # "bool" /\ ~TokenHasValue(t)
         THEN FirstOffending(type, arguments, i + 2)
         ELSE FirstOffending(type, arguments, i + 1)

\* the first offending argument names a flag: hyphens and a name
UnknownFlagAt(i) ==
    /\ i = FirstOffending(T, args, 1) /\ i # 0
    /\ HasPrefix(args[i], "-") /\ TokenName(args[i]) # ""

\* C13: when the first argument in the place of a flag that is no flag of the
\* structure names a flag (and is no request for help), parseFlags fails with
\* an error that names it, no Extend method is called, validate does not run
\* and the structure is zero on return, whatever valid arguments came before.
C13_UnknownFlag ==
    \A i \in 1..Len(args) :
        (ValidTarget /\ Len(ran) >= 2 /\ UnknownFlagAt(i)) =>
            /\ pc \in {"defer", "returned"}
            /\ ran = SubSeq(Stages, 1, 2)
            /\ called = <<>>
            /\ retErr.kind = "unexpected"
            /\ retErr.msg = "unexpected cli argument " \o Quote("-" \o TokenName(args[i]))
            /\ pc = "returned" => mem = ZeroStruct(T)

\* C13 witness: an unknown flag after a valid argument; the call returned the
\* error that names it, and the structure, which held values of the caller and
\* then the defaults, is zero
C13_Witness ==
    /\ pc = "returned" /\ ValidTarget /\ UnknownFlagAt(2)
    /\ IsFlagName(T, TokenName(args[1]))
    /\ pre # ZeroStruct(T) /\ parsed # ZeroStruct(T) /\ parsed # pre
    /\ mem = ZeroStruct(T)

RECURSIVE FlagPositions(_, _, _)
\* the positions, from i on, of the arguments that stand where a flag is
\* expected, up to the first that is no flag of the type
FlagPositions(type, arguments, i) ==
    IF i > Len(arguments) THEN {}
    ELSE LET t == arguments[i] IN
         IF IsHelpToken(t) THEN {i} \cup FlagPositions(type, arguments, i + 1)
         ELSE IF ~HasPrefix(t, "-") \/ ~IsFlagName(type, TokenName(t)) THEN {i}
         ELSE IF FieldAt(type, FlagNamed(type, TokenName(t))).kind # "bool" /\ ~TokenHasValue(t)
         THEN {i} \cup FlagPositions(type, arguments, i + 2)
         ELSE {i} \cup FlagPositions(type, arguments, i + 1)

\* the positions at which the command line gives the flag of a name
Occurrences(name) ==
    { i \in FlagPositions(T, args, 1) : HasPrefix(args[i], "-") /\ TokenName(args[i]) = name }

\* the last of a set of positions that is not empty
Last(positions) == CHOOSE i \in positions : \A j \in positions : j <= i

\* parseFlags has returned without an error
ParsedOk == pc = "extend" \/ Len(ran) >= 3

\* the boolean flags of the type that have a name
BoolFlags == { a \in FlagFields(T) : FieldAt(T, a).kind = "bool" /\ TagName(T, a) # "" }

\* C14: after a parse that succeeded, a boolean flag given last as -b or
\* -b=true (with one or two hyphens) has set its field to true, one given last
\* as -b=false has set it to false, and one that the command line does not
\* give has left in its field the default decoded from its tag, false when the
\* default text is empty.
C14_BooleanForms ==
    ParsedOk =>
        \A a \in BoolFlags :
            LET occ == Occurrences(TagName(T, a)) IN
            IF occ = {}
            THEN parsed[a] = IF DefaultText(T, a) = "" THEN FALSE
                             ELSE DefaultText(T, a) \in {"1", "t", "T", "TRUE", "true", "True"}
            ELSE LET t == args[Last(occ)] IN
                 /\ (~TokenHasValue(t) \/ TokenValue(t) = "true") => parsed[a] = TRUE
                 /\ (TokenHasValue(t) /\ TokenValue(t) = "false") => parsed[a] = FALSE

\* C14 witness: one boolean given bare and true, one with a default of true
\* given as false, one not given and false
C14_Witness ==
    /\ ParsedOk
    /\ \E a, b, c \in BoolFlags :
          /\ Occurrences(TagName(T, a)) # {} /\ parsed[a] = TRUE
          /\ ~TokenHasValue(args[Last(Occurrences(TagName(T, a)))])
          /\ Occurrences(TagName(T, b)) # {} /\ parsed[b] = FALSE
          /\ DefaultText(T, b) = "true"
          /\ Occurrences(TagName(T, c)) = {} /\ parsed[c] = FALSE /\ pre[c] = TRUE

\* the argument with two leading hyphens for one, or one for two
OtherHyphens(t) == IF HasPrefix(t, "--") THEN SubSeq(t, 2, Len(t)) ELSE "-" \o t

\* the command line with the hyphens of the argument at position i exchanged
Respelled(arguments, i) == [arguments EXCEPT ![i] = OtherHyphens(@)]

\* the positions where the command line gives a flag of the type: hyphens and
\* a name
GivenFlags ==
    { i \in FlagPositions(T, args, 1) :
          /\ HasPrefix(args[i], "-") /\ TokenName(args[i]) # ""
          /\ IsFlagName(T, TokenName(args[i])) }

\* C15: one and two leading hyphens mean the same: writing a flag of the
\* command line with the other number of hyphens changes neither the error of
\* parseFlags nor the values it leaves in the fields, which are all that the
\* later stages depend on.
C15_HyphensEquivalent ==
    Collected =>
        \A i \in GivenFlags :
            /\ parseFlags(fb, pre, Respelled(args, i)) = parseFlags(fb, pre, args)
            /\ Len(ran) >= 2 => parseFlags(fb, pre, Respelled(args, i)).mem = parsed
            /\ ParsedOk <=> (Len(ran) >= 2 /\ parseFlags(fb, pre, Respelled(args, i)).err = Nil)

\* C15 witness: a parse that succeeded on a command line giving one flag with
\* two hyphens and another with one, both values stored
C15_Witness ==
    /\ ParsedOk
    /\ \E i, j \in GivenFlags :
          /\ HasPrefix(args[i], "--") /\ ~HasPrefix(args[j], "--")
          /\ \A k \in {i, j} :
                /\ TokenHasValue(args[k])
                /\ parsed[FlagNamed(T, TokenName(args[k]))] = TokenValue(args[k])
                /\ pre[FlagNamed(T, TokenName(args[k]))] # TokenValue(args[k])

\* every field with a tag is one that setUpFlags collects when it stands at the
\* top: exported, of a supported type, with metadata that parses
TaggedFieldsInOrder(type) ==
    \A a \in FlagFields(type) :
        /\ IsExported(FieldAt(type, a).name)
        /\ FieldAt(type, a).kind \in PrimitiveKinds
        /\ parseFlagData(FieldAt(type, a).kind, a, FieldAt(type, a).tag).err = Nil

\* C16: a field that is a structure is always gone into, with or without a tag
\* of its own and at any depth: setUpFlags ends without an error, and every
\* field with a tag, however deep, is collected once with the flag data it
\* would have at the top; a nested structure without tagged fields adds
\* nothing.
C16_RecordsAlwaysScanned ==
    (ValidTarget /\ Len(ran) >= 1 /\ TaggedFieldsInOrder(T)) =>
        /\ Collected /\ pc # "panicked"
        /\ Len(fb.flags) = Cardinality(FlagFields(T))
        /\ \A a \in FlagFields(T) :
              \E k \in 1..Len(fb.flags) :
                  fb.flags[k] = parseFlagData(FieldAt(T, a).kind, a, FieldAt(T, a).tag).fd

\* the fields that are no structures and have no tag
Untagged == Leaves(T, <<>>) \ FlagFields(T)

\* C17: a field that is no structure and has no tag is ignored whatever its
\* type: no flag is collected for it, it causes no error of an unsupported
\* type, parseFlags does not write it, and after a call that succeeded it holds
\* what it held before unless an Extend method assigned it.
C17_UntaggedIgnored ==
    ValidTarget =>
        /\ \A a \in Untagged :
              /\ \A k \in 1..Len(fb.flags) : fb.flags[k].addr # a
              /\ parsed[a] = pre[a]
              /\ (pc = "returned" /\ retErr = Nil) => (mem[a] = pre[a] \/ a \in HookTargets)
        /\ retErr.kind = "type" =>
              \E a \in FlagFields(T) : FieldAt(T, a).kind \notin PrimitiveKinds
        /\ (Len(ran) >= 1 /\ ValidStructure(T)) => Collected

\* C17 witness: a call succeeded on a structure with a slice without a tag,
\* which holds what the caller left in it, and another field without a tag that
\* an Extend method assigned, while parseFlags wrote the tagged fields
C17_Witness ==
    /\ pc = "returned" /\ retErr = Nil /\ ValidTarget /\ parsed # pre
    /\ \E a \in Untagged :
          /\ FieldAt(T, a).kind = "slice"
          /\ mem[a] = pre[a] /\ pre[a] # ZeroOf("slice")
    /\ \E b \in Untagged \cap HookTargets : mem[b] # pre[b]

\* C18: a call is determined by the type of the structure and the command
\* line: it starts from a new flagBuilder, and the error it returns, text
\* included, is the one that every other call with the same command line on a
\* zeroed structure of the type returns, in whatever order validate walks the
\* map of the required flags.
C18_Deterministic ==
    /\ pc = "setup" => fb = newFlagBuilder
    /\ Validated => \A p \in Orders(Len(fb.required)) : retErr = validate(fb, T, mem, p)

\* the kinds of error each stage returns
StageErrors ==
    << {"metadata", "reserved", "default", "type"},
       {"unexpected", "undefined", "value", "syntax"},
       {"extension"},
       {"missing"} >>

\* C19: the stages run in the order setUpFlags, parseFlags,
\* runExtensionFunctions, validate, each only after the one before it returned
\* without an error; no stage runs after one that failed, and the error
\* returned is that of the earliest stage that fails on the structure and the
\* command line.
C19_StagesInOrder ==
    ValidTarget =>
        /\ IsPrefix(ran, Stages)
        /\ (pc \in {"defer", "returned"} /\ retErr # Nil)
              => retErr.kind \in StageErrors[Len(ran)]
        /\ pc \in {"defer", "returned"} =>
              LET s == setUpFlags(newFlagBuilder, T, <<>>)
                  p == parseFlags(s.fb, pre, args)
                  e == runExtensionFunctions(s.fb, T, p.mem)
              IN  IF s.err # Nil
                  THEN retErr = s.err /\ ran = SubSeq(Stages, 1, 1) /\ called = <<>>
                  ELSE IF p.err # Nil
                  THEN retErr = p.err /\ ran = SubSeq(Stages, 1, 2) /\ called = <<>>
                  ELSE IF e.err # Nil
                  THEN retErr = e.err /\ ran = SubSeq(Stages, 1, 3)
                  ELSE /\ ran = Stages
                       /\ \E o \in Orders(Len(s.fb.required)) :
                             retErr = validate(s.fb, T, e.mem, o)

\* C19 witness: the error of an Extend method was returned although a
\* required flag is missing, validate not having run
C19_Witness ==
    /\ pc = "returned" /\ ValidTarget
    /\ retErr.kind = "extension" /\ ran = SubSeq(Stages, 1, 3)
    /\ \E a \in RequiredFields(T) : extended[a] = ZeroOf(FieldAt(T, a).kind)

\* the tagged fields whose type is none of those of the type switch
UnsupportedFields(type) ==
    { a \in FlagFields(type) : FieldAt(type, a).kind \notin PrimitiveKinds }

\* nothing but the type of some tagged fields is amiss in the structure
OnlyTypesAmiss(type) ==
    /\ UnsupportedFields(type) # {}
    /\ \A a \in Leaves(type, <<>>) : ReachableByReflection(type, a)
    /\ \A a \in FlagFields(type) : IsExported(FieldAt(type, a).name)
    /\ \A a \in FlagFields(type) \ UnsupportedFields(type) :
          parseFlagData(FieldAt(type, a).kind, a, FieldAt(type, a).tag).err = Nil

BadDefaults(type) ==
    { a \in FlagFields(type) :
          /\ FieldAt(type, a).kind \in PrimitiveKinds
          /\ fourthPartError(FieldAt(type, a).tag) = Nil
          /\ reservedNameError(TagName(type, a)) = Nil
          /\ DefaultText(type, a) # ""
          /\ ~tParser(FieldAt(type, a).kind, DefaultText(type, a)).ok }

\* nothing but default texts is amiss in the structure
OnlyDefaultsAmiss(type) ==
    /\ BadDefaults(type) # {}
    /\ \A a \in Leaves(type, <<>>) : ReachableByReflection(type, a)
    /\ \A a \in FlagFields(type) : IsExported(FieldAt(type, a).name)
    /\ \A a \in FlagFields(type) \ BadDefaults(type) :
          /\ FieldAt(type, a).kind \in PrimitiveKinds
          /\ parseFlagData(FieldAt(type, a).kind, a, FieldAt(type, a).tag).err = Nil

\* the first field, in the order of the scan, whose default text is rejected
FirstBadDefault(type) ==
    CHOOSE a \in BadDefaults(type) : \A b \in BadDefaults(type) \ {a} : DeclaredBefore(a, b)

\* C21: when the default text of a tagged field that is not required is not
\* empty and the decoder of the type of the field rejects it, setUpFlags
\* returns the error of the decoder at that field: the fields before it have
\* been collected, it and those after it have not, no Extend method has been
\* collected or called, no argument is parsed, ParseAndLoadFlags returns the
\* error and the structure is zero.
C21_DefaultParseError ==
    (ValidTarget /\ Len(ran) = 1 /\ OnlyDefaultsAmiss(T)) =>
        LET a == FirstBadDefault(T) IN
        /\ pc \in {"defer", "returned"}
        /\ ran = SubSeq(Stages, 1, 1)
        /\ called = <<>>
        /\ a \notin RequiredFields(T) /\ DefaultText(T, a) # ""
        /\ retErr = Error("default", tParser(FieldAt(T, a).kind, DefaultText(T, a)).msg)
        /\ { fb.flags[k].addr : k \in 1..Len(fb.flags) }
               = { b \in FlagFields(T) : DeclaredBefore(b, a) }
        /\ parsed = pre /\ extended = pre
        /\ pc = "defer" => mem = pre
        /\ pc = "returned" => mem = ZeroStruct(T)

\* C21 witness: the call returned the range error of an int64 default that
\* stands between two tagged fields, the first of them collected, in a
\* structure with an Extend method; the values of the caller are gone
C21_Witness ==
    /\ pc = "returned" /\ ValidTarget /\ OnlyDefaultsAmiss(T)
    /\ retErr.msg = "strconv.ParseInt: parsing \"9223372036854775808\": value out of range"
    /\ Len(fb.flags) = 1
    /\ \E b \in FlagFields(T) : DeclaredBefore(FirstBadDefault(T), b)
    /\ T.ext.op # "none" /\ fb.extFns = <<>>
    /\ args # <<>> /\ pre # ZeroStruct(T) /\ mem = ZeroStruct(T)

\* a flag that has a name and is no boolean stands at position i, where a flag
\* is expected, without an equals sign
BareValueFlagAt(i) ==
    /\ i \in GivenFlags
    /\ ~TokenHasValue(args[i])
    /\ FieldAt(T, FlagNamed(T, TokenName(args[i]))).kind # "bool"

\* the command line with the arguments at i and i + 1 written as the one
\* argument -name=value
Joined(arguments, i) ==
    SubSeq(arguments, 1, i - 1) \o << arguments[i] \o "=" \o arguments[i + 1] >>
        \o SubSeq(arguments, i + 2, Len(arguments))

\* a request for help stands where a flag is expected
HelpGiven == \E j \in FlagPositions(T, args, 1) : IsHelpToken(args[j])

\* C22: a flag that is no boolean takes a value.  Written as -name value it
\* gives parseFlags the same result, error and field values (on which alone the
\* later stages depend), as written -name=value; standing as the last argument
\* without a value it makes parseFlags fail (with "flag needs an argument" when
\* the arguments before it are in order), no later stage runs and the structure
\* is zero on return.  The second part is stated of command lines without a
\* request for help, which ends the process before.
C22_ValueRequired ==
    (ValidTarget /\ Len(ran) = 2) =>
        \A i \in 1..Len(args) :
            BareValueFlagAt(i) =>
                IF i < Len(args)
                THEN /\ parseFlags(fb, pre, Joined(args, i)) = parseFlags(fb, pre, args)
                     /\ parseFlags(fb, pre, Joined(args, i)).mem = parsed
                ELSE ~HelpGiven =>
                        /\ pc \in {"defer", "returned"}
                        /\ ran = SubSeq(Stages, 1, 2)
                        /\ called = <<>>
                        /\ retErr.kind = "value"
                        /\ Reading(T, SubSeq(args, 1, i - 1)).ok
                              => retErr.msg = "flag needs an argument: -" \o TokenName(args[i])
                        /\ pc = "returned" => mem = ZeroStruct(T)

\* C22 witness: a call succeeded on a command line that gives a number as
\* -name value, the field holding that number and not what the caller left
C22_Witness ==
    /\ pc = "returned" /\ retErr = Nil /\ ValidTarget
    /\ \E i \in 1..(Len(args) - 1) :
          /\ BareValueFlagAt(i)
          /\ FieldAt(T, FlagNamed(T, TokenName(args[i]))).kind \in IntKinds
          /\ mem[FlagNamed(T, TokenName(args[i]))] = args[i + 1]
          /\ pre[FlagNamed(T, TokenName(args[i]))] # args[i + 1]

\* C23: every flag that setUpFlags collects, from whatever tag that is not
\* empty, has a name that is not empty and has no white space at its ends, in
\* the list of the flags handed to the FlagSet and in the list of the names
\* that parseFlags looks the arguments up in.
C23_NamesNonEmpty ==
    /\ \A k \in 1..Len(fb.flags) :
          fb.flags[k].name # "" /\ TrimSpace(fb.flags[k].name) = fb.flags[k].name
    /\ \A k \in 1..Len(fb.values) :
          fb.values[k].name # "" /\ TrimSpace(fb.values[k].name) = fb.values[k].name

IntDefaults(type) ==
    { a \in FlagFields(type) : FieldAt(type, a).kind \in IntKinds /\ DefaultText(type, a) # "" }

\* whether a text is a decimal number, with or without a sign, that a variable
\* of the kind can hold: int and int64 hold -2^63 .. 2^63 - 1, uint and uint64
\* hold 0 .. 2^64 - 1 (int and uint being 64 bits wide on the platform)
Representable(kind, text) ==
    LET signed == Len(text) > 0 /\ At(text, 1) \in {"+", "-"}
        neg == Len(text) > 0 /\ At(text, 1) = "-"
        body == IF signed THEN SubSeq(text, 2, Len(text)) ELSE text
        mag == StripZeros(body)
    IN  /\ AllDigits(body)
        /\ IF kind \in {"int", "int64"}
           THEN MagnitudeLeq(mag, IF neg THEN "9223372036854775808" ELSE "9223372036854775807")
           ELSE (~neg \/ mag = "0") /\ MagnitudeLeq(mag, "18446744073709551615")

\* C25: the decoder of the default text of an integer field accepts a text
\* exactly when the number it denotes can be held by the type of the field
\* (int, int64, uint, uint64), a uint holding all that the platform's uint
\* holds; so setUpFlags fails on a default only when the number is out of the
\* range of the type of the field.
C25_WidthOfType ==
    (ValidTarget /\ Len(ran) >= 1) =>
        /\ \A a \in IntDefaults(T) :
              Representable(FieldAt(T, a).kind, DefaultText(T, a))
                  <=> tParser(FieldAt(T, a).kind, DefaultText(T, a)).ok
        /\ (retErr.kind = "default" /\ OnlyDefaultsAmiss(T)
            /\ FirstBadDefault(T) \in IntDefaults(T))
              => ~Representable(FieldAt(T, FirstBadDefault(T)).kind,
                                DefaultText(T, FirstBadDefault(T)))

\* the command line gives the field at address a, last, the zero value of its
\* type
SuppliedZero(a) ==
    Supplied(T, args, a) /\ LastSupplied(T, args, a) = ZeroOf(FieldAt(T, a).kind)

\* validate has returned
PastValidate == pc \in {"defer", "returned"} /\ Len(ran) = 4

\* C26: validate judges a required flag by the value of its field, not by its
\* presence on the command line: a required flag that the command line gives
\* the zero value of its type (-n=0, -str=) and whose field no Extend method
\* assigns is named in the error of the missing flags, and the structure is
\* zero on return.
C26_RequiredByValue ==
    (ValidTarget /\ PastValidate) =>
        \A a \in RequiredFields(T) :
            (SuppliedZero(a) /\ a \notin HookTargets) =>
                /\ retErr.kind = "missing"
                /\ TagName(T, a) \in Range(retErr.names)
                /\ pc = "returned" => mem = ZeroStruct(T)

\* C26 witness: the call returned the error naming a required number that the
\* command line gave as 0, the values of the caller gone
C26_Witness ==
    /\ pc = "returned" /\ ValidTarget /\ Len(ran) = 4
    /\ \E a \in RequiredFields(T) :
          /\ FieldAt(T, a).kind \in IntKinds
          /\ SuppliedZero(a) /\ a \notin HookTargets
          /\ retErr.names = <<TagName(T, a)>>
    /\ pre # ZeroStruct(T) /\ mem = ZeroStruct(T)

\* the last of the Extend methods called that assigns the field at address a
\* gives it the zero value of its type
ClearedByHook(a) ==
    \E k \in 1..Len(called) :
        /\ ExtAt(T, called[k]).op = "set"
        /\ called[k] \o ExtAt(T, called[k]).to = a
        /\ ExtAt(T, called[k]).val = ZeroOf(FieldAt(T, a).kind)
        /\ \A j \in (k + 1)..Len(called) :
              ExtAt(T, called[j]).op \in {"set", "copy"}
                  => called[j] \o ExtAt(T, called[j]).to # a

\* C27: validate sees the values the Extend methods left, never those parsed:
\* a required flag that the command line gave a value other than zero and
\* whose field an Extend method then set to zero is named in the error of the
\* missing flags, and the structure is zero on return.
C27_HookClearsRequired ==
    (ValidTarget /\ PastValidate) =>
        \A a \in RequiredFields(T) :
            (Supplied(T, args, a) /\ ~SuppliedZero(a) /\ ClearedByHook(a)) =>
                /\ parsed[a] = LastSupplied(T, args, a)
                /\ extended[a] = ZeroOf(FieldAt(T, a).kind)
                /\ retErr.kind = "missing"
                /\ TagName(T, a) \in Range(retErr.names)
                /\ pc = "returned" => mem = ZeroStruct(T)

\* C27 witness: the call returned the error naming a required flag that the
\* command line gave a value and an Extend method cleared
C27_Witness ==
    /\ pc = "returned" /\ ValidTarget /\ Len(ran) = 4
    /\ \E a \in RequiredFields(T) :
          /\ Supplied(T, args, a) /\ parsed[a] # ZeroOf(FieldAt(T, a).kind)
          /\ ClearedByHook(a)
          /\ retErr.names = <<TagName(T, a)>>
    /\ mem = ZeroStruct(T)

\* the default that setUpFlags decodes for the field at address a: the zero
\* value for a required flag and for an empty default text
DecodedDefault(type, a) ==
    IF DefaultText(type, a) = "" THEN ZeroOf(FieldAt(type, a).kind)
    ELSE tParser(FieldAt(type, a).kind, DefaultText(type, a)).val

\* the collected flags that no argument of the command line names
Unnamed == { k \in 1..Len(fb.flags) : ~Named(args, fb.flags[k].name) }

\* C28: what the caller left in a tagged field does not outlast parseFlags:
\* attachFlags stores the decoded default (zero for a required flag) in every
\* tagged field before an argument is applied.  So after parseFlags, failed or
\* not, a flag that the command line does not name holds its default; after a
\* call that succeeded it still does unless an Extend method assigned it; and
\* a required flag that the command line does not name is reported missing
\* although the caller had filled its field, unless an Extend method assigned
\* it.
C28_DefaultsOverwrite ==
    (ValidTarget /\ pc # "panicked") =>
        /\ Len(ran) = 2 =>
              \A k \in Unnamed :
                  parsed[fb.flags[k].addr] = DecodedDefault(T, fb.flags[k].addr)
        /\ (pc = "returned" /\ retErr = Nil) =>
              \A k \in Unnamed :
                  fb.flags[k].addr \notin HookTargets
                      => mem[fb.flags[k].addr] = DecodedDefault(T, fb.flags[k].addr)
        /\ PastValidate =>
              \A k \in Unnamed :
                  (fb.flags[k].isRequired /\ fb.flags[k].addr \notin HookTargets)
                      => fb.flags[k].name \in Range(retErr.names)

\* C28 witness: a call succeeded on a structure the caller had filled: a flag
\* that the command line does not name holds its default, another, without a
\* default, is zero, and neither holds what the caller left
C28_Witness ==
    /\ pc = "returned" /\ ValidTarget /\ retErr = Nil /\ args # <<>>
    /\ \E j, k \in Unnamed :
          /\ fb.flags[j].name # "" /\ fb.flags[k].name # ""
          /\ DefaultText(T, fb.flags[j].addr) # ""
          /\ mem[fb.flags[j].addr] = DecodedDefault(T, fb.flags[j].addr)
          /\ DefaultText(T, fb.flags[k].addr) = ""
          /\ mem[fb.flags[k].addr] = ZeroOf(fb.flags[k].kind)
          /\ \A l \in {j, k} :
                /\ pre[fb.flags[l].addr] # ZeroOf(fb.flags[l].kind)
                /\ pre[fb.flags[l].addr] # mem[fb.flags[l].addr]

\* the argument at position i stands where a flag is expected and is neither a
\* flag of the structure, written with its hyphens and name, nor a request for
\* help: a bare word, the empty argument, - or --, or an unknown name
NotAFlagAt(i) ==
    /\ i \in FlagPositions(T, args, 1)
    /\ ~IsHelpToken(args[i])
    /\ \/ ~HasPrefix(args[i], "-")
       \/ TokenName(args[i]) = ""
       \/ ~IsFlagName(T, TokenName(args[i]))

\* C29: when parseFlags succeeds the FlagSet has taken every argument, as a
\* flag of the structure or as the value of the flag before it: an argument
\* that stands where a flag is expected and is none (a bare word, a value
\* after a boolean, the empty argument, - or --) makes parseFlags fail, so
\* that nothing at the end of the command line is passed over in silence.
C29_AllConsumed ==
    (ValidTarget /\ Len(ran) >= 2 /\ pc # "panicked") =>
        /\ (\E i \in 1..Len(args) : NotAFlagAt(i)) => ~ParsedOk
        /\ ParsedOk => fsArgs(attachFlags(fb, pre).formal, args) = <<>>

====
